---- MODULE Spec2Model ----
(***************************************************************************)
(* A model of go-gitdiff: the strict text applier (gitdiff/apply.go over   *)
(* the line reader of gitdiff/io.go) and the line-oriented patch parser    *)
(* and formatter.  Lines are strings that keep their line ending, as in    *)
(* the Go code.                                                            *)
(***************************************************************************)
EXTENDS Integers, Sequences, FiniteSets, TLC

VARIABLES
    src,      \* apply: the source content, split after each "\n"
    lr,       \* apply: the lineReader over src: bytes consumed (in lines) and lr.n
    dst,      \* apply: the lines written to dst so far
    frags,    \* apply: the fragments of File.TextFragments handed to ApplyStrict so far
    status,   \* apply: "applying", "done" (File.ApplyStrict returned nil) or "failed"
    aerr,     \* apply: the *ApplyError returned (NoError while there is none)
    input,    \* parse: the lines of the reader given to Parse
    parser,   \* parse: the parser (lines not read yet, eof, lineno, lines)
    files,    \* parse: the files of Parse
    preamble, \* parse: the preamble of Parse
    perr,     \* parse: the error Parse returned (NoErr while there is none)
    pstatus,  \* parse: "start", "parsing", "done", "failed" or "crashed" (a panic)
    fileLines, \* parse: for each file of files, the number of the line its header starts on
    scanFrom, \* parse: the number of the line the last search for a file header started on
    rt,       \* format: the file formatted last, its text and the result of Parse on it
    ghdr,     \* header: the File that parseGitHeaderData fills, the default name and the lines so far
    ap,       \* applier: the apply type of an Applier and the calls on it with their errors
    bin,      \* binary delta: the source, the delta, the bytes written to dst and the error
    lra,      \* line reader: a lineReaderAt over a source, its index, and its last call of ReadLinesAt
    ln,       \* line source: a parser, its input and the calls of Next on it
    pm,       \* parser method: a method of the parser, its input, the parser before and after the call
    nam       \* name: a file name, the text written for it and what parseName returns for the text

avars == <<src, lr, dst, frags, status, aerr>>
pvars == <<input, parser, files, preamble, perr, pstatus, fileLines, scanFrom, rt>>
xvars == <<ghdr, ap, bin, lra, ln, pm, nam>>
vars == <<avars, pvars, xvars>>

----------------------------------------------------------------------------
(* Bounds of the model.                                                    *)

MaxSrcLines == 3
MaxPatchLines == 3
MaxFrags == 2

----------------------------------------------------------------------------
(* Strings.                                                                *)

HasPrefix(s, p) == Len(s) >= Len(p) /\ SubSeq(s, 1, Len(p)) = p

HasSuffix(s, p) == Len(s) >= Len(p) /\ SubSeq(s, Len(s) - Len(p) + 1, Len(s)) = p

SeqsUpTo(S, n) == UNION {[1..k -> S] : k \in 0..n}

RECURSIVE Concat(_)
Concat(ls) == IF ls = <<>> THEN "" ELSE Head(ls) \o Concat(Tail(ls))

Min(a, b) == IF a < b THEN a ELSE b

----------------------------------------------------------------------------
(* Strings and numbers, as the strings and strconv packages compute them.  *)

\* F applied to the value v: the way operators below name a value they use
\* more than once.  v is evaluated once, as a statement of the code is
\* executed once, before F is applied to it.
With(v, F(_)) == CHOOSE r \in {F(x) : x \in {v}} : TRUE

Char(s, i) == SubSeq(s, i, i)

\* strings.Index from position i on: the position of the first occurrence of
\* sub in s at or after i, or 0 if there is none.
RECURSIVE IndexFrom(_, _, _)
IndexFrom(s, sub, i) ==
    IF i + Len(sub) - 1 > Len(s) THEN 0
    ELSE IF SubSeq(s, i, i + Len(sub) - 1) = sub THEN i
    ELSE IndexFrom(s, sub, i + 1)

Index(s, sub) == IndexFrom(s, sub, 1)

TrimSuffix(s, suf) == IF HasSuffix(s, suf) THEN SubSeq(s, 1, Len(s) - Len(suf)) ELSE s

IsSpace(c) == c \in {" ", "\t", "\n", "\r", "\f"}

RECURSIVE TrimLeft(_)
TrimLeft(s) == IF Len(s) > 0 /\ IsSpace(Char(s, 1)) THEN TrimLeft(SubSeq(s, 2, Len(s))) ELSE s

RECURSIVE TrimRight(_)
TrimRight(s) ==
    IF Len(s) > 0 /\ IsSpace(Char(s, Len(s))) THEN TrimRight(SubSeq(s, 1, Len(s) - 1)) ELSE s

TrimSpace(s) == TrimRight(TrimLeft(s))

\* The value of a digit, or -1.
DigitVal(c) ==
    CASE c = "0" -> 0 [] c = "1" -> 1 [] c = "2" -> 2 [] c = "3" -> 3 [] c = "4" -> 4
      [] c = "5" -> 5 [] c = "6" -> 6 [] c = "7" -> 7 [] c = "8" -> 8 [] c = "9" -> 9
      [] OTHER -> -1

DigitChar(d) ==
    CASE d = 0 -> "0" [] d = 1 -> "1" [] d = 2 -> "2" [] d = 3 -> "3" [] d = 4 -> "4"
      [] d = 5 -> "5" [] d = 6 -> "6" [] d = 7 -> "7" [] d = 8 -> "8" [] d = 9 -> "9"

\* The digits of s from position i on, in the given base: the number they
\* read as after acc, or -1 if one of them is no digit of the base.
RECURSIVE ParseDigits(_, _, _, _)
ParseDigits(s, i, base, acc) ==
    IF i > Len(s) THEN acc
    ELSE LET d == DigitVal(Char(s, i)) IN
         IF d < 0 \/ d >= base THEN -1
         ELSE ParseDigits(s, i + 1, base, acc * base + d)

\* strconv.ParseInt(s, base, bitSize): an optional sign and at least one
\* digit.  The numbers of the model are far from the limits of bitSize.
ParseInt(s, base) ==
    LET signed == Len(s) > 0 /\ Char(s, 1) \in {"+", "-"}
        digits == IF signed THEN SubSeq(s, 2, Len(s)) ELSE s
        v == IF digits = "" THEN -1 ELSE ParseDigits(digits, 1, base, 0)
    IN
    IF v < 0 THEN [ok |-> FALSE, v |-> 0]
    ELSE [ok |-> TRUE, v |-> IF signed /\ Char(s, 1) = "-" THEN 0 - v ELSE v]

\* The digits of n >= 0 in the given base ("%d", "%o").
RECURSIVE FormatUint(_, _)
FormatUint(n, base) ==
    IF n < base THEN DigitChar(n)
    ELSE FormatUint(n \div base, base) \o DigitChar(n % base)

FormatInt(n, base) == IF n < 0 THEN "-" \o FormatUint(0 - n, base) ELSE FormatUint(n, base)

\* The lines of a text as bufio.Reader.ReadString('\n') returns them one
\* after the other: each ends with its "\n", the last one may not.
RECURSIVE SplitLines(_)
SplitLines(s) ==
    IF s = "" THEN <<>>
    ELSE LET i == Index(s, "\n") IN
         IF i = 0 THEN <<s>>
         ELSE <<SubSeq(s, 1, i)>> \o SplitLines(SubSeq(s, i + 1, Len(s)))


----------------------------------------------------------------------------
(* gitdiff.go: Line, LineOp, TextFragment.                                 *)

OpContext == 0
OpDelete == 1
OpAdd == 2

Old(fl) == fl.Op = OpContext \/ fl.Op = OpDelete

New(fl) == fl.Op = OpContext \/ fl.Op = OpAdd

NoEOL(fl) == Len(fl.Line) = 0 \/ ~HasSuffix(fl.Line, "\n")

\* The counters Validate derives from the lines of a fragment, in its order:
\* one pass that counts and that resets the trailing context at each change.
RECURSIVE CountLines(_, _, _)
CountLines(lines, i, c) ==
    IF i > Len(lines) THEN c
    ELSE LET op == lines[i].Op IN
         CountLines(lines, i + 1,
            IF op = OpContext THEN
                [c EXCEPT !.oldLines = @ + 1, !.newLines = @ + 1,
                          !.leadingContext =
                              IF c.addedLines = 0 /\ c.deletedLines = 0 THEN @ + 1 ELSE @,
                          !.trailingContext =
                              IF c.addedLines = 0 /\ c.deletedLines = 0 THEN @ ELSE @ + 1]
            ELSE IF op = OpAdd THEN
                [c EXCEPT !.newLines = @ + 1, !.addedLines = @ + 1, !.trailingContext = 0]
            ELSE
                [c EXCEPT !.oldLines = @ + 1, !.deletedLines = @ + 1, !.trailingContext = 0])

ZeroCounts ==
    [oldLines |-> 0, newLines |-> 0, leadingContext |-> 0, trailingContext |-> 0,
     addedLines |-> 0, deletedLines |-> 0]

\* TextFragment.Validate: TRUE iff it returns nil.
Validate(f) ==
    LET c == CountLines(f.Lines, 1, ZeroCounts) IN
    /\ \A i \in 1..Len(f.Lines) : f.Lines[i].Op \in {OpContext, OpDelete, OpAdd}
    /\ c.oldLines = f.OldLines
    /\ c.newLines = f.NewLines
    /\ c.leadingContext = f.LeadingContext
    /\ c.trailingContext = f.TrailingContext
    /\ c.addedLines = f.LinesAdded
    /\ c.deletedLines = f.LinesDeleted
    /\ ~(f.OldPosition = 0 /\ f.OldLines # 0)

----------------------------------------------------------------------------
(* Errors of apply.go.  An error is the string of its message; the two    *)
(* io sentinels are named as in package io.                                *)

Nil == "nil"
EOF == "EOF"
ErrUnexpectedEOF == "unexpected EOF"
ErrInvalidFragment == "invalid fragment"
ConflictNoMatch == "conflict: fragment line does not match src line"
ConflictCreate == "conflict: cannot create new file from non-empty src"
ConflictOverlap == "conflict: fragment overlaps with an applied fragment"

\* errors.Is(err, &Conflict{})
IsConflict(e) == HasPrefix(e, "conflict: ")

wrapEOF(e) == IF e = EOF THEN ErrUnexpectedEOF ELSE e

NoError == [err |-> Nil, Line |-> 0, Fragment |-> 0, FragmentLine |-> 0]

\* applyError(err, lineNum(n), fragLineNum(i)): a new *ApplyError with the
\* one-indexed positions; a position that is not passed stays 0.  hasLine and
\* hasFragLine tell which arguments the caller passes.
applyError(e, hasLine, n, hasFragLine, i) ==
    [err |-> wrapEOF(e),
     Line |-> IF hasLine THEN n + 1 ELSE 0,
     Fragment |-> 0,
     FragmentLine |-> IF hasFragLine THEN i + 1 ELSE 0]

----------------------------------------------------------------------------
(* io.go: lineReader.  r.pos counts the lines already consumed from the   *)
(* underlying reader, r.n is the field lineReader.n.                       *)

\* lineReader.ReadLine: ReadString('\n') returns the text up to and including
\* the next "\n", or what is left and io.EOF; n advances on a full line only.
ReadLine(r) ==
    IF r.pos < Len(src) THEN
        LET line == src[r.pos + 1] IN
        IF HasSuffix(line, "\n")
        THEN [line |-> line, n |-> r.n, err |-> Nil,
              r |-> [pos |-> r.pos + 1, n |-> r.n + 1]]
        ELSE [line |-> line, n |-> r.n, err |-> EOF,
              r |-> [pos |-> r.pos + 1, n |-> r.n]]
    ELSE [line |-> "", n |-> r.n, err |-> EOF, r |-> r]

----------------------------------------------------------------------------
(* apply.go: the text applier.                                             *)

\* copyLines that takes a negative limit for "nothing to copy" and does not
\* look at what is left of the source.
RECURSIVE copyLinesNoCreateCheck(_, _, _)
copyLinesNoCreateCheck(d, r, limit) ==
    LET rl == ReadLine(r) IN
    IF limit < 0 THEN
        [line |-> "", n |-> limit, err |-> Nil, r |-> r, dst |-> d]
    ELSE IF rl.n = limit THEN
        [line |-> rl.line, n |-> rl.n, err |-> rl.err, r |-> rl.r, dst |-> d]
    ELSE IF rl.n > limit THEN
        [line |-> "", n |-> rl.n, err |-> ConflictOverlap, r |-> rl.r, dst |-> d]
    ELSE IF rl.err # Nil THEN
        [line |-> rl.line, n |-> rl.n, err |-> wrapEOF(rl.err), r |-> rl.r, dst |-> d]
    ELSE copyLinesNoCreateCheck(Append(d, rl.line), rl.r, limit)

\* copyLines(dst, src, limit): copies until the line at limit, exclusive.
RECURSIVE copyLines(_, _, _)
copyLines(d, r, limit) ==
    LET rl == ReadLine(r) IN
    IF limit < 0 /\ rl.err = EOF /\ rl.line = "" THEN
        [line |-> "", n |-> limit, err |-> Nil, r |-> rl.r, dst |-> d]
    ELSE IF rl.n = limit THEN
        [line |-> rl.line, n |-> rl.n, err |-> rl.err, r |-> rl.r, dst |-> d]
    ELSE IF rl.n > limit THEN
        [line |-> "", n |-> rl.n,
         err |-> IF limit < 0 THEN ConflictCreate ELSE ConflictOverlap,
         r |-> rl.r, dst |-> d]
    ELSE IF rl.err # Nil THEN
        [line |-> rl.line, n |-> rl.n, err |-> wrapEOF(rl.err), r |-> rl.r, dst |-> d]
    ELSE copyLines(Append(d, rl.line), rl.r, limit)

\* applyTextLine that compares context lines only.
applyTextLineContextOnly(srcLine, line) ==
    IF line.Op = OpContext /\ srcLine # line.Line THEN ConflictNoMatch ELSE Nil

\* applyTextLine(dst, src, line): Nil, or the conflict of an old line that
\* differs from the source line.
applyTextLine(srcLine, line) ==
    IF Old(line) /\ srcLine # line.Line THEN ConflictNoMatch ELSE Nil

\* The loop of TextFragment.ApplyStrict over f.Lines, from the (one-indexed)
\* line i on; nextLine and n are the last line read and its number.
RECURSIVE applyLines(_, _, _, _, _, _, _, _)
applyLines(f, i, nextLine, n, used, r, d, limit) ==
    IF i > Len(f.Lines) THEN [e |-> NoError, r |-> r, dst |-> d]
    ELSE
        LET line == f.Lines[i]
            e == applyTextLine(nextLine, line)
            d1 == IF New(line) THEN Append(d, line.Line) ELSE d
            used1 == IF Old(line) THEN used + 1 ELSE used
        IN
        IF e # Nil THEN
            [e |-> applyError(e, TRUE, n, TRUE, i - 1), r |-> r, dst |-> d]
        ELSE IF i < Len(f.Lines) /\ Old(f.Lines[i + 1]) /\ n - limit < used1 THEN
            LET rl == ReadLine(r) IN
            IF rl.err = EOF /\ NoEOL(f.Lines[i + 1]) THEN
                applyLines(f, i + 1, rl.line, rl.n, used1, rl.r, d1, limit)
            ELSE IF rl.err # Nil THEN
                [e |-> applyError(rl.err, TRUE, rl.n, TRUE, i), r |-> rl.r, dst |-> d1]
            ELSE applyLines(f, i + 1, rl.line, rl.n, used1, rl.r, d1, limit)
        ELSE applyLines(f, i + 1, nextLine, n, used1, r, d1, limit)

\* TextFragment.ApplyStrict(dst, src): the error it returns (NoError for nil),
\* the reader and the output afterwards.
TextFragmentApplyStrict(f, r, d) ==
    IF ~Validate(f) THEN
        [e |-> applyError(ErrInvalidFragment, FALSE, 0, FALSE, 0), r |-> r, dst |-> d]
    ELSE
        LET limit == f.OldPosition - 1
            cl == copyLines(d, r, limit)
        IN
        IF cl.err # Nil /\ cl.err # EOF THEN
            [e |-> applyError(cl.err, TRUE, cl.n, FALSE, 0), r |-> cl.r, dst |-> cl.dst]
        ELSE applyLines(f, 1, cl.line, cl.n, 0, cl.r, cl.dst, limit)

----------------------------------------------------------------------------
(* The parser: its line source (parser.Next, shiftLines, Line, Errorf).    *)

\* A parse error: the line number and text of p.Errorf, a Go panic (which
\* returns nothing), or no error.
NoErr == [line |-> 0, msg |-> ""]
ErrEOF == [line |-> 0, msg |-> "EOF"]
Panic(msg) == [line |-> 0, msg |-> "panic: " \o msg]
IsPanic(e) == HasPrefix(e.msg, "panic: ")

\* p := &parser{r: bufio.NewReader(r)} over the lines of the input: r is the
\* part of the input not read yet.
NewParser(in) == [r |-> in, eof |-> FALSE, lineno |-> 0, lines |-> <<"", "", "">>]

\* p.shiftLines(): the read-ahead window moves by one line; at the end of the
\* input ReadString returns the empty string (and io.EOF, which every caller
\* ignores).
shiftLines(p) ==
    [p EXCEPT !.lines = <<p.lines[2], p.lines[3], IF p.r = <<>> THEN "" ELSE Head(p.r)>>,
              !.r = IF p.r = <<>> THEN <<>> ELSE Tail(p.r)]

\* p.Next() that does not remember the end of the input.
ParserNextAgain(p) ==
    With(shiftLines(IF p.lineno = 0 THEN shiftLines(shiftLines(p)) ELSE p), LAMBDA s :
    With([s EXCEPT !.lineno = s.lineno + 1], LAMBDA t :
        IF t.lines[1] = "" THEN [p |-> [t EXCEPT !.eof = TRUE], err |-> ErrEOF]
        ELSE [p |-> t, err |-> NoErr]))

\* p.Next(): [p, err] with err = NoErr or ErrEOF.
ParserNext(p) ==
    IF p.eof THEN [p |-> p, err |-> ErrEOF]
    ELSE With(shiftLines(IF p.lineno = 0 THEN shiftLines(shiftLines(p)) ELSE p), LAMBDA s :
         With([s EXCEPT !.lineno = s.lineno + 1], LAMBDA t :
             IF t.lines[1] = "" THEN [p |-> [t EXCEPT !.eof = TRUE], err |-> ErrEOF]
             ELSE [p |-> t, err |-> NoErr]))

\* p.Line(delta)
Line(p, delta) == p.lines[delta + 1]

\* Errorf that reports the line the parser is on, whatever the delta.
ErrorfNoDelta(p, delta, msg) == [line |-> p.lineno, msg |-> msg]

\* p.Errorf(delta, msg)
Errorf(p, delta, msg) == [line |-> p.lineno + delta, msg |-> msg]

----------------------------------------------------------------------------
(* Text fragments: parser.ParseTextFragmentHeader, parseRange,             *)
(* parser.ParseTextChunk, parser.ParseTextFragments.                       *)

NoFragment ==
    [Comment |-> "", OldPosition |-> 0, OldLines |-> 0, NewPosition |-> 0, NewLines |-> 0,
     LinesAdded |-> 0, LinesDeleted |-> 0, LeadingContext |-> 0, TrailingContext |-> 0,
     Lines |-> <<>>]

\* parseRange(s): [ok, start, end]
parseRange(s) ==
    With(Index(s, ","), LAMBDA c :
    With(ParseInt(IF c = 0 THEN s ELSE SubSeq(s, 1, c - 1), 10), LAMBDA start :
    With(IF c = 0 THEN [ok |-> TRUE, v |-> 1] ELSE ParseInt(SubSeq(s, c + 1, Len(s)), 10),
         LAMBDA end :
        IF ~start.ok \/ ~end.ok THEN [ok |-> FALSE, start |-> 0, end |-> 0]
        ELSE [ok |-> TRUE, start |-> start.v, end |-> end.v])))

\* TextFragment.Header()
Header(f) ==
    "@@ -" \o FormatInt(f.OldPosition, 10) \o "," \o FormatInt(f.OldLines, 10)
        \o " +" \o FormatInt(f.NewPosition, 10) \o "," \o FormatInt(f.NewLines, 10) \o " @@"
        \o IF f.Comment # "" THEN " " \o f.Comment ELSE ""

ErrInvalidFragmentHeader == "invalid fragment header"

\* p.ParseTextFragmentHeader(): [has, frag, err, p].  has is FALSE for the nil
\* fragment; the parser moves only when a fragment is returned.
ParseTextFragmentHeader(p) ==
    LET line == Line(p, 0)
        none == [has |-> FALSE, frag |-> NoFragment, err |-> NoErr, p |-> p]
        invalid == [has |-> FALSE, frag |-> NoFragment,
                    err |-> Errorf(p, 0, ErrInvalidFragmentHeader), p |-> p]
    IN
    IF ~HasPrefix(line, "@@ -") THEN none
    ELSE With(Index(line, " @@"), LAMBDA e :
         IF e = 0 THEN invalid
         ELSE With(SubSeq(line, 5, e - 1), LAMBDA header :
              With(Index(header, " +"), LAMBDA s1 :
              IF s1 = 0 \/ IndexFrom(header, " +", s1 + 2) # 0 THEN invalid
              ELSE With(parseRange(SubSeq(header, 1, s1 - 1)), LAMBDA old :
                   With(parseRange(SubSeq(header, s1 + 2, Len(header))), LAMBDA new :
                   IF ~old.ok \/ ~new.ok THEN invalid
                   ELSE [has |-> TRUE,
                         frag |-> [NoFragment EXCEPT
                                      !.Comment = TrimSpace(SubSeq(line, e + 3, Len(line))),
                                      !.OldPosition = old.start, !.OldLines = old.end,
                                      !.NewPosition = new.start, !.NewLines = new.end],
                         err |-> NoErr,
                         p |-> ParserNext(p).p])))))

\* isNoNewlineLine(s) of ParseTextChunk
isNoNewlineLine(s) == Len(s) >= 12 /\ SubSeq(s, 1, 2) = "\\ "

max(a, b) == IF a > b THEN a ELSE b

ErrNoContent == "no content following fragment header"
ErrInvalidLineOp == "invalid line operation"
ErrMiscount == "fragment header miscounts lines"

\* The end of ParseTextChunk without the comparison of the lines read with
\* the counts of the header.
chunkEndNoMiscount(p, frag0, frag, oldLines, newLines) ==
    [frag |-> frag, err |-> NoErr, p |-> ParserNext(p).p]

\* The end of ParseTextChunk, after its loop.
chunkEnd(p, frag0, frag, oldLines, newLines) ==
    IF oldLines # 0 \/ newLines # 0 THEN
        LET hdr == max(frag0.OldLines - oldLines, frag0.NewLines - newLines) + 1 IN
        [frag |-> frag, err |-> Errorf(p, 0 - hdr, ErrMiscount), p |-> p]
    ELSE [frag |-> frag, err |-> NoErr, p |-> ParserNext(p).p]

\* The loop of ParseTextChunk: one line of the fragment per iteration.
RECURSIVE chunkLoop(_, _, _, _, _)
chunkLoop(p, frag0, frag, oldLines, newLines) ==
    With(Line(p, 0), LAMBDA line :
    With(Char(line, 1), LAMBDA op :
    With(IF op = "\n" THEN "\n" ELSE SubSeq(line, 2, Len(line)), LAMBDA data :
    With(op = "\n" \/ op = " ", LAMBDA context :
    With(~context /\ op # "-" /\ op # "+" /\ isNoNewlineLine(line), LAMBDA marker :
    With(IF context \/ op = "-" THEN oldLines - 1 ELSE oldLines, LAMBDA o :
    With(IF context \/ op = "+" THEN newLines - 1 ELSE newLines, LAMBDA n :
    With(IF context THEN
                 [frag EXCEPT
                    !.LeadingContext =
                        IF frag.LinesAdded = 0 /\ frag.LinesDeleted = 0 THEN @ + 1 ELSE @,
                    !.TrailingContext =
                        IF frag.LinesAdded = 0 /\ frag.LinesDeleted = 0 THEN @ ELSE @ + 1,
                    !.Lines = Append(@, [Op |-> OpContext, Line |-> data])]
             ELSE IF op = "-" THEN
                 [frag EXCEPT !.LinesDeleted = @ + 1, !.TrailingContext = 0,
                              !.Lines = Append(@, [Op |-> OpDelete, Line |-> data])]
             ELSE IF op = "+" THEN
                 [frag EXCEPT !.LinesAdded = @ + 1, !.TrailingContext = 0,
                              !.Lines = Append(@, [Op |-> OpAdd, Line |-> data])]
             ELSE IF marker /\ frag.Lines # <<>> THEN
                 [frag EXCEPT !.Lines[Len(frag.Lines)].Line = TrimSuffix(@, "\n")]
             ELSE frag, LAMBDA g :
    IF ~context /\ op # "-" /\ op # "+" /\ ~marker THEN
        [frag |-> frag, err |-> Errorf(p, 0, ErrInvalidLineOp), p |-> p]
    ELSE IF marker /\ frag.Lines = <<>> THEN
        \* frag.Lines[len(frag.Lines)-1] with no line: index out of range
        [frag |-> frag, err |-> Panic("index out of range [-1]"), p |-> p]
    ELSE IF o <= 0 /\ n <= 0 /\ ~isNoNewlineLine(Line(p, 1)) THEN
        chunkEnd(p, frag0, g, o, n)
    ELSE With(ParserNext(p), LAMBDA nx :
         IF nx.err # NoErr THEN chunkEnd(nx.p, frag0, g, o, n)
         ELSE chunkLoop(nx.p, frag0, g, o, n))))))))))

\* p.ParseTextChunk(frag): [frag, err, p]
ParseTextChunk(p, frag) ==
    IF Line(p, 0) = "" THEN [frag |-> frag, err |-> Errorf(p, 0, ErrNoContent), p |-> p]
    ELSE chunkLoop(p, frag, frag, frag.OldLines, frag.NewLines)

ErrNewFileOldContent == "new file depends on old contents"
ErrDeletedFileContent == "deleted file still has contents"

\* p.ParseTextFragments(f): [n, f, err, p]
RECURSIVE ParseTextFragments(_, _, _)
ParseTextFragments(p, f, n) ==
    With(ParseTextFragmentHeader(p), LAMBDA h :
    IF h.err # NoErr THEN [n |-> n, f |-> f, err |-> h.err, p |-> h.p]
    ELSE IF ~h.has THEN [n |-> n, f |-> f, err |-> NoErr, p |-> h.p]
    ELSE IF f.IsNew /\ h.frag.OldLines > 0 THEN
        [n |-> n, f |-> f, err |-> Errorf(h.p, -1, ErrNewFileOldContent), p |-> h.p]
    ELSE IF f.IsDelete /\ h.frag.NewLines > 0 THEN
        [n |-> n, f |-> f, err |-> Errorf(h.p, -1, ErrDeletedFileContent), p |-> h.p]
    ELSE With(ParseTextChunk(h.p, h.frag), LAMBDA c :
         IF c.err # NoErr THEN [n |-> n, f |-> f, err |-> c.err, p |-> c.p]
         ELSE ParseTextFragments(c.p,
                  [f EXCEPT !.TextFragments = Append(@, c.frag)], n + 1)))

----------------------------------------------------------------------------
(* Files and their Git headers: parseName, cleanName, parseGitHeaderName,  *)
(* parseGitHeaderData and the parsers of its table (file_header.go).       *)

BinaryPatchDelta == 0
BinaryPatchLiteral == 1

\* The nil *BinaryFragment
NilBinaryFragment == [Method |-> -1, Size |-> 0, Data |-> ""]

\* &File{}
NoFile ==
    [OldName |-> "", NewName |-> "",
     IsNew |-> FALSE, IsDelete |-> FALSE, IsCopy |-> FALSE, IsRename |-> FALSE,
     OldMode |-> 0, NewMode |-> 0,
     OldOIDPrefix |-> "", NewOIDPrefix |-> "", Score |-> 0,
     TextFragments |-> <<>>,
     IsBinary |-> FALSE,
     BinaryFragment |-> NilBinaryFragment, ReverseBinaryFragment |-> NilBinaryFragment]

devNull == "/dev/null"

\* cleanName(name, drop), from the byte at position i on, b being the
\* strings.Builder.
RECURSIVE cleanNameFrom(_, _, _, _)
cleanNameFrom(name, i, drop, b) ==
    IF i > Len(name) THEN b
    ELSE IF Char(name, i) = "/" THEN
        IF i < Len(name) /\ Char(name, i + 1) = "/" THEN cleanNameFrom(name, i + 1, drop, b)
        ELSE IF drop > 0 THEN cleanNameFrom(name, i + 1, drop - 1, "")
        ELSE cleanNameFrom(name, i + 1, drop, b \o "/")
    ELSE cleanNameFrom(name, i + 1, drop, b \o Char(name, i))

cleanName(name, drop) == cleanNameFrom(name, 1, drop, "")

\* The end of a quoted name: the loop of parseName over s[1:], n counting
\* bytes from 0 as in the code.
RECURSIVE quotedEnd(_, _)
quotedEnd(s, n) ==
    IF n >= Len(s) THEN n
    ELSE IF Char(s, n + 1) = "\"" /\ Char(s, n) # "\\" THEN n + 1
    ELSE quotedEnd(s, n + 1)

\* The byte an escape sequence \c of a quoted name stands for, or "" if \c
\* starts no escape of one character.
UnescapeChar(c) ==
    CASE c = "\\" -> "\\" [] c = "\"" -> "\"" [] c = "n" -> "\n" [] c = "t" -> "\t"
      [] c = "r" -> "\r" [] c = "f" -> "\f" [] OTHER -> ""

\* strconv.Unquote of the text between the quotes, from position i on.  The
\* names of the model hold no byte that is written as an octal escape.
RECURSIVE unquoteFrom(_, _, _)
unquoteFrom(s, i, acc) ==
    IF i > Len(s) THEN [ok |-> TRUE, v |-> acc]
    ELSE LET c == Char(s, i) IN
         IF c = "\"" \/ c = "\n" THEN [ok |-> FALSE, v |-> ""]
         ELSE IF c = "\\" THEN
             IF i = Len(s) \/ UnescapeChar(Char(s, i + 1)) = "" THEN [ok |-> FALSE, v |-> ""]
             ELSE unquoteFrom(s, i + 2, acc \o UnescapeChar(Char(s, i + 1)))
         ELSE unquoteFrom(s, i + 1, acc \o c)

\* strconv.Unquote(s) for a text in double quotes.
Unquote(s) ==
    IF Len(s) < 2 \/ Char(s, 1) # "\"" \/ Char(s, Len(s)) # "\"" THEN [ok |-> FALSE, v |-> ""]
    ELSE unquoteFrom(SubSeq(s, 2, Len(s) - 1), 1, "")

\* The end of an unquoted name: the first terminator at or after byte n
\* (counted from 0).  term is the terminator, "" for a negative term, which
\* stands for space and tab.
RECURSIVE unquotedEnd(_, _, _)
unquotedEnd(s, term, n) ==
    IF n >= Len(s) THEN n
    ELSE IF term # "" /\ Char(s, n + 1) = term THEN n
    ELSE IF term = "" /\ Char(s, n + 1) \in {" ", "\t"} THEN n
    ELSE unquotedEnd(s, term, n + 1)

\* parseName(s, term, dropPrefix): [ok, name, n]
parseName(s, term, dropPrefix) ==
    LET missing == [ok |-> FALSE, name |-> "", n |-> 0]
        done(name, n) ==
            [ok |-> TRUE,
             name |-> IF name = devNull THEN name ELSE cleanName(name, dropPrefix),
             n |-> n]
    IN
    IF Len(s) > 0 /\ Char(s, 1) = "\"" THEN
        With(quotedEnd(s, 1), LAMBDA n :
        With(Unquote(SubSeq(s, 1, n)), LAMBDA u :
            IF n = 2 \/ ~u.ok THEN missing ELSE done(u.v, n)))
    ELSE
        With(unquotedEnd(s, term, 0), LAMBDA n :
            IF n = 0 THEN missing ELSE done(SubSeq(s, 1, n), n))

\* parseGitHeaderName(header): [ok, name]
parseGitHeaderName(header) ==
    With(parseName(header, "", 1), LAMBDA first :
    With(IF first.n < Len(header) /\ Char(header, first.n + 1) \in {" ", "\t"}
         THEN first.n + 1 ELSE first.n, LAMBDA n :
    With(parseName(SubSeq(header, n + 1, Len(header)), "", 1), LAMBDA second :
        IF ~first.ok \/ ~second.ok THEN [ok |-> FALSE, name |-> ""]
        ELSE IF first.name # second.name THEN [ok |-> TRUE, name |-> ""]
        ELSE [ok |-> TRUE, name |-> first.name])))

\* verifyGitHeaderName(parsed, existing, isNull, side): the error, or ""
verifyGitHeaderName(parsed, existing, isNull, side) ==
    IF existing # "" /\ isNull THEN "expected /dev/null, but filename is set to " \o existing
    ELSE IF existing # "" /\ existing # parsed THEN "inconsistent " \o side \o " filename"
    ELSE IF isNull /\ parsed # devNull THEN "expected /dev/null"
    ELSE ""

\* The parsers of header lines return [f, err]: the file and the error, or "".
parseMode(s) == ParseInt(s, 8)

ErrInvalidMode == "invalid mode line: invalid syntax"
ErrMissingName == "missing name"

parseGitHeaderOldName(f, line, defaultName) ==
    With(parseName(line, "\t", 1), LAMBDA nm :
        IF ~nm.ok THEN [f |-> f, err |-> ErrMissingName]
        ELSE IF f.OldName = "" /\ ~f.IsNew
            THEN [f |-> [f EXCEPT !.OldName = nm.name], err |-> ""]
        ELSE [f |-> f, err |-> verifyGitHeaderName(nm.name, f.OldName, f.IsNew, "old")])

parseGitHeaderNewName(f, line, defaultName) ==
    With(parseName(line, "\t", 1), LAMBDA nm :
        IF ~nm.ok THEN [f |-> f, err |-> ErrMissingName]
        ELSE IF f.NewName = "" /\ ~f.IsDelete
            THEN [f |-> [f EXCEPT !.NewName = nm.name], err |-> ""]
        ELSE [f |-> f, err |-> verifyGitHeaderName(nm.name, f.NewName, f.IsDelete, "new")])

parseGitHeaderOldMode(f, line, defaultName) ==
    With(parseMode(line), LAMBDA m :
        [f |-> [f EXCEPT !.OldMode = m.v], err |-> IF m.ok THEN "" ELSE ErrInvalidMode])

parseGitHeaderNewMode(f, line, defaultName) ==
    With(parseMode(line), LAMBDA m :
        [f |-> [f EXCEPT !.NewMode = m.v], err |-> IF m.ok THEN "" ELSE ErrInvalidMode])

parseGitHeaderDeletedMode(f, line, defaultName) ==
    parseGitHeaderOldMode([f EXCEPT !.IsDelete = TRUE, !.OldName = defaultName],
                          line, defaultName)

parseGitHeaderCreatedMode(f, line, defaultName) ==
    parseGitHeaderNewMode([f EXCEPT !.IsNew = TRUE, !.NewName = defaultName],
                          line, defaultName)

parseGitHeaderCopyFrom(f, line, defaultName) ==
    With(parseName(line, "", 0), LAMBDA nm :
        [f |-> [f EXCEPT !.IsCopy = TRUE, !.OldName = nm.name],
         err |-> IF nm.ok THEN "" ELSE ErrMissingName])

parseGitHeaderCopyTo(f, line, defaultName) ==
    With(parseName(line, "", 0), LAMBDA nm :
        [f |-> [f EXCEPT !.IsCopy = TRUE, !.NewName = nm.name],
         err |-> IF nm.ok THEN "" ELSE ErrMissingName])

parseGitHeaderRenameFrom(f, line, defaultName) ==
    With(parseName(line, "", 0), LAMBDA nm :
        [f |-> [f EXCEPT !.IsRename = TRUE, !.OldName = nm.name],
         err |-> IF nm.ok THEN "" ELSE ErrMissingName])

parseGitHeaderRenameTo(f, line, defaultName) ==
    With(parseName(line, "", 0), LAMBDA nm :
        [f |-> [f EXCEPT !.IsRename = TRUE, !.NewName = nm.name],
         err |-> IF nm.ok THEN "" ELSE ErrMissingName])

ErrInvalidScore == "invalid score line: invalid syntax"

parseGitHeaderScore(f, line, defaultName) ==
    With(ParseInt(line, 10), LAMBDA score :
        IF ~score.ok THEN [f |-> f, err |-> ErrInvalidScore]
        ELSE IF score.v <= 100 THEN [f |-> [f EXCEPT !.Score = score.v], err |-> ""]
        ELSE [f |-> f, err |-> ""])

ErrInvalidIndex == "invalid index line: missing \"..\""

parseGitHeaderIndex(f, line, defaultName) ==
    With(Index(line, " "), LAMBDA sp :
    With(IF sp = 0 THEN line ELSE SubSeq(line, 1, sp - 1), LAMBDA part0 :
    With(Index(part0, ".."), LAMBDA dots :
    With([f EXCEPT !.OldOIDPrefix = SubSeq(part0, 1, dots - 1),
                   !.NewOIDPrefix = SubSeq(part0, dots + 2, Len(part0))], LAMBDA g :
        IF dots = 0 THEN [f |-> f, err |-> ErrInvalidIndex]
        ELSE IF sp # 0
            THEN parseGitHeaderOldMode(g, SubSeq(line, sp + 1, Len(line)), defaultName)
        ELSE [f |-> g, err |-> ""]))))

\* parseGitHeaderData(f, line, defaultName): [end, f, err, panic].  The first
\* statement reads line[len(line)-1], which panics on the empty line.
parseGitHeaderData(f, line0, defaultName) ==
    LET line == TrimSuffix(line0, "\n")
        rest(prefix) == SubSeq(line, Len(prefix) + 1, Len(line))
        more(r) == [end |-> FALSE, f |-> r.f, err |-> r.err, panic |-> FALSE]
        stop == [end |-> TRUE, f |-> f, err |-> "", panic |-> FALSE]
    IN
    IF line0 = "" THEN [stop EXCEPT !.panic = TRUE]
    ELSE IF HasPrefix(line, "@@ -") THEN stop
    ELSE IF HasPrefix(line, "--- ") THEN more(parseGitHeaderOldName(f, rest("--- "), defaultName))
    ELSE IF HasPrefix(line, "+++ ") THEN more(parseGitHeaderNewName(f, rest("+++ "), defaultName))
    ELSE IF HasPrefix(line, "old mode ") THEN
        more(parseGitHeaderOldMode(f, rest("old mode "), defaultName))
    ELSE IF HasPrefix(line, "new mode ") THEN
        more(parseGitHeaderNewMode(f, rest("new mode "), defaultName))
    ELSE IF HasPrefix(line, "deleted file mode ") THEN
        more(parseGitHeaderDeletedMode(f, rest("deleted file mode "), defaultName))
    ELSE IF HasPrefix(line, "new file mode ") THEN
        more(parseGitHeaderCreatedMode(f, rest("new file mode "), defaultName))
    ELSE IF HasPrefix(line, "copy from ") THEN
        more(parseGitHeaderCopyFrom(f, rest("copy from "), defaultName))
    ELSE IF HasPrefix(line, "copy to ") THEN
        more(parseGitHeaderCopyTo(f, rest("copy to "), defaultName))
    ELSE IF HasPrefix(line, "rename old ") THEN
        more(parseGitHeaderRenameFrom(f, rest("rename old "), defaultName))
    ELSE IF HasPrefix(line, "rename new ") THEN
        more(parseGitHeaderRenameTo(f, rest("rename new "), defaultName))
    ELSE IF HasPrefix(line, "rename from ") THEN
        more(parseGitHeaderRenameFrom(f, rest("rename from "), defaultName))
    ELSE IF HasPrefix(line, "rename to ") THEN
        more(parseGitHeaderRenameTo(f, rest("rename to "), defaultName))
    ELSE IF HasPrefix(line, "similarity index ") THEN
        more(parseGitHeaderScore(f, rest("similarity index "), defaultName))
    ELSE IF HasPrefix(line, "dissimilarity index ") THEN
        more(parseGitHeaderScore(f, rest("dissimilarity index "), defaultName))
    ELSE IF HasPrefix(line, "index ") THEN
        more(parseGitHeaderIndex(f, rest("index "), defaultName))
    ELSE stop

----------------------------------------------------------------------------
(* File headers: parser.ParseGitFileHeader, parser.ParseTraditionalFileHeader *)
(* and hasEpochTimestamp, as the design document describes them (header     *)
(* recognizer, file-metadata parser) on top of parseGitHeaderName and       *)
(* parseGitHeaderData.  Each returns [has, f, err, p]: has is FALSE for the  *)
(* nil file, and the parser moves only when a file is returned.             *)

ErrMissingFilename == "git file header: missing filename information"

\* The end of ParseGitFileHeader, after the metadata block.
gitHeaderEnd(p, f, defaultName) ==
    With(IF f.OldName = "" /\ f.NewName = "" /\ defaultName # ""
         THEN [f EXCEPT !.OldName = defaultName, !.NewName = defaultName] ELSE f, LAMBDA g :
        IF \/ f.OldName = "" /\ f.NewName = "" /\ defaultName = ""
           \/ g.NewName = "" /\ ~g.IsDelete
           \/ g.OldName = "" /\ ~g.IsNew
        THEN [has |-> FALSE, f |-> NoFile, err |-> Errorf(p, 0, ErrMissingFilename), p |-> p]
        ELSE [has |-> TRUE, f |-> g, err |-> NoErr, p |-> p])

\* The metadata block: the line after the current one goes to
\* parseGitHeaderData (the empty string when the input has ended), then the
\* parser advances; the block ends with the line that ends it, which becomes
\* the current line, or with the input.
RECURSIVE gitHeaderLoop(_, _, _)
gitHeaderLoop(p, f, defaultName) ==
    With(parseGitHeaderData(f, Line(p, 1), defaultName), LAMBDA d :
    With(ParserNext(p), LAMBDA nx :
        IF d.panic THEN
            [has |-> FALSE, f |-> NoFile, err |-> Panic("index out of range [-1]"), p |-> p]
        ELSE IF d.err # "" THEN
            [has |-> FALSE, f |-> NoFile,
             err |-> Errorf(p, 1, "git file header: " \o d.err), p |-> p]
        ELSE IF nx.err # NoErr \/ d.end THEN gitHeaderEnd(nx.p, d.f, defaultName)
        ELSE gitHeaderLoop(nx.p, d.f, defaultName)))

fileHeaderPrefix == "diff --git "

ParseGitFileHeader(p) ==
    IF ~HasPrefix(Line(p, 0), fileHeaderPrefix) THEN
        [has |-> FALSE, f |-> NoFile, err |-> NoErr, p |-> p]
    ELSE With(parseGitHeaderName(SubSeq(Line(p, 0), Len(fileHeaderPrefix) + 1,
                                        Len(Line(p, 0)))), LAMBDA defaultName :
        IF ~defaultName.ok THEN
            [has |-> FALSE, f |-> NoFile,
             err |-> Errorf(p, 0, "git file header: " \o ErrMissingName), p |-> p]
        ELSE gitHeaderLoop(p, NoFile, defaultName.name))

\* The timestamps of the model that denote the epoch.
EpochTimestamps == {"1970-01-01 00:00:00 +0000", "1969-12-31 17:00:00.0 -0700"}

\* hasEpochTimestamp(s): the text after the first tab is an epoch date; a ':'
\* in the zone is dropped first.
hasEpochTimestamp(s) ==
    With(Index(s, "\t"), LAMBDA start :
    With(TrimSuffix(SubSeq(s, start + 1, Len(s)), "\n"), LAMBDA ts :
        /\ start # 0
        /\ (IF Len(ts) >= 3 /\ Char(ts, Len(ts) - 2) = ":"
             THEN SubSeq(ts, 1, Len(ts) - 3) \o SubSeq(ts, Len(ts) - 1, Len(ts))
             ELSE ts) \in EpochTimestamps))

shortestValidFragHeader == "@@ -1 +1 @@\n"

ParseTraditionalFileHeader(p) ==
    LET oldLine == Line(p, 0)
        newLine == Line(p, 1)
        none == [has |-> FALSE, f |-> NoFile, err |-> NoErr, p |-> p]
    IN
    IF ~HasPrefix(oldLine, "--- ") \/ ~HasPrefix(newLine, "+++ ") THEN none
    ELSE IF Len(Line(p, 2)) < Len(shortestValidFragHeader) \/ ~HasPrefix(Line(p, 2), "@@ -")
        THEN none
    ELSE With(ParserNext(ParserNext(p).p).p, LAMBDA q :
         With(parseName(SubSeq(oldLine, 5, Len(oldLine)), "\t", 0), LAMBDA oldName :
         With(parseName(SubSeq(newLine, 5, Len(newLine)), "\t", 0), LAMBDA newName :
            IF ~oldName.ok THEN
                [has |-> FALSE, f |-> NoFile,
                 err |-> Errorf(q, 0, "file header: " \o ErrMissingName), p |-> q]
            ELSE IF ~newName.ok THEN
                [has |-> FALSE, f |-> NoFile,
                 err |-> Errorf(q, 1, "file header: " \o ErrMissingName), p |-> q]
            ELSE [has |-> TRUE,
                  f |-> IF oldName.name = devNull \/ hasEpochTimestamp(oldLine) THEN
                            [NoFile EXCEPT !.IsNew = TRUE, !.NewName = newName.name]
                        ELSE IF newName.name = devNull \/ hasEpochTimestamp(newLine) THEN
                            [NoFile EXCEPT !.IsDelete = TRUE, !.OldName = oldName.name]
                        ELSE IF HasPrefix(newName.name, oldName.name) THEN
                            [NoFile EXCEPT !.OldName = oldName.name, !.NewName = oldName.name]
                        ELSE [NoFile EXCEPT !.OldName = newName.name,
                                            !.NewName = newName.name],
                  err |-> NoErr, p |-> q])))

----------------------------------------------------------------------------
(* Binary fragments: parser.ParseBinaryMarker, parser.ParseBinaryFragmentHeader, *)
(* parser.ParseBinaryChunk, parser.ParseBinaryFragments.                    *)

\* The position of a length byte among the letters: A = 1 .. z = 52, 0 for
\* any other byte.
LengthBytes == "ABCDEFGHIJKLMNOPQRSTUVWXYZabcdefghijklmnopqrstuvwxyz"

\* The base85 texts of the model that base85Decode and inflateBinaryChunk
\* turn into data: each is one line that encodes a zlib stream of the empty
\* data (78 01 03 00 00 00 00 01 as Git writes it, 78 9c 01 00 00 ff ff 00
\* 00 00 01 as compress/zlib does).  Any other text of the model is no zlib
\* stream.
EmptyDataChunks == {"cmV?d00001", "c$@(M0RR6000031"}

\* The loop of ParseBinaryChunk: [err, p, seqs], seqs the base85 text of the
\* lines read.
RECURSIVE binaryChunkLoop(_, _)
binaryChunkLoop(p, seqs) ==
    LET line == Line(p, 0)
        fail(msg) == [err |-> Errorf(p, 0, msg), p |-> p, seqs |-> seqs]
    IN
    IF line = "\n" THEN [err |-> NoErr, p |-> p, seqs |-> seqs]
    ELSE IF Len(line) < Len("A00000\n") \/ (Len(line) - 2) % 5 # 0 THEN
        fail("binary patch: corrupt data line")
    ELSE With(Index(LengthBytes, Char(line, 1)), LAMBDA byteCount :
         With(SubSeq(line, 2, Len(line) - 1), LAMBDA seq :
         With((Len(seq) \div 5) * 4, LAMBDA maxByteCount :
         With(ParserNext(p), LAMBDA nx :
            IF byteCount = 0 THEN fail("binary patch: invalid length byte")
            ELSE IF byteCount > maxByteCount \/ byteCount < maxByteCount - 3 THEN
                fail("binary patch: incorrect byte count")
            ELSE IF nx.err # NoErr THEN
                [err |-> Errorf(nx.p, 0, "binary patch: unexpected EOF"), p |-> nx.p,
                 seqs |-> seqs]
            ELSE binaryChunkLoop(nx.p, Append(seqs, seq))))))

\* p.ParseBinaryChunk(frag): [frag, err, p]
ParseBinaryChunk(p, frag) ==
    With(binaryChunkLoop(p, <<>>), LAMBDA c :
    IF c.err # NoErr THEN [frag |-> frag, err |-> c.err, p |-> c.p]
    ELSE IF ~(Len(c.seqs) = 1 /\ c.seqs[1] \in EmptyDataChunks) THEN
        [frag |-> frag, err |-> Errorf(c.p, 0, "binary patch: zlib: invalid header"), p |-> c.p]
    ELSE IF frag.Size # 0 THEN
        [frag |-> frag,
         err |-> Errorf(c.p, 0, "binary patch: " \o FormatInt(frag.Size, 10)
                                    \o " byte fragment inflated to 0"),
         p |-> c.p]
    ELSE [frag |-> [frag EXCEPT !.Data = ""], err |-> NoErr,
          p |-> ParserNext(c.p).p])

\* p.ParseBinaryFragmentHeader(): [has, frag, err, p]
ParseBinaryFragmentHeader(p) ==
    With(TrimSuffix(Line(p, 0), "\n"), LAMBDA line :
    With(Index(line, " "), LAMBDA sp :
    With(SubSeq(line, 1, sp - 1), LAMBDA method :
    With(ParseInt(SubSeq(line, sp + 1, Len(line)), 10), LAMBDA size :
        IF sp = 0 \/ method \notin {"delta", "literal"} THEN
            [has |-> FALSE, frag |-> NilBinaryFragment, err |-> NoErr, p |-> p]
        ELSE IF ~size.ok THEN
            [has |-> FALSE, frag |-> NilBinaryFragment,
             err |-> Errorf(p, 0, "binary patch: invalid size"), p |-> p]
        ELSE [has |-> TRUE,
              frag |-> [Method |-> IF method = "delta" THEN BinaryPatchDelta
                                   ELSE BinaryPatchLiteral,
                        Size |-> size.v, Data |-> ""],
              err |-> NoErr, p |-> ParserNext(p).p]))))

\* p.ParseBinaryMarker() that stays on the line of the marker.
ParseBinaryMarkerStay(p) ==
    IF Line(p, 0) = "GIT binary patch\n" THEN
        [isBinary |-> TRUE, hasData |-> TRUE, p |-> p]
    ELSE IF Line(p, 0) \in {"Binary files differ\n", "Files differ\n"} THEN
        [isBinary |-> TRUE, hasData |-> FALSE, p |-> p]
    ELSE [isBinary |-> FALSE, hasData |-> FALSE, p |-> p]

\* p.ParseBinaryMarker(): [isBinary, hasData, p]
ParseBinaryMarker(p) ==
    IF Line(p, 0) = "GIT binary patch\n" THEN
        [isBinary |-> TRUE, hasData |-> TRUE, p |-> ParserNext(p).p]
    ELSE IF Line(p, 0) \in {"Binary files differ\n", "Files differ\n"} THEN
        [isBinary |-> TRUE, hasData |-> FALSE, p |-> ParserNext(p).p]
    ELSE [isBinary |-> FALSE, hasData |-> FALSE, p |-> p]

\* p.ParseBinaryFragments(f): [n, f, err, p]
ParseBinaryFragments(p, f) ==
    With(ParseBinaryMarker(p), LAMBDA mk :
    With([f EXCEPT !.IsBinary = TRUE], LAMBDA g :
    IF ~mk.isBinary THEN [n |-> 0, f |-> f, err |-> NoErr, p |-> p]
    ELSE IF ~mk.hasData THEN [n |-> 0, f |-> g, err |-> NoErr, p |-> mk.p]
    ELSE With(ParseBinaryFragmentHeader(mk.p), LAMBDA fh :
    IF fh.err # NoErr THEN [n |-> 0, f |-> g, err |-> fh.err, p |-> fh.p]
    ELSE IF ~fh.has THEN
        [n |-> 0, f |-> g, err |-> Errorf(mk.p, 0, "missing data for binary patch"), p |-> mk.p]
    ELSE With(ParseBinaryChunk(fh.p, fh.frag), LAMBDA fc :
    With([g EXCEPT !.BinaryFragment = fc.frag], LAMBDA g1 :
    IF fc.err # NoErr THEN [n |-> 0, f |-> g, err |-> fc.err, p |-> fc.p]
    ELSE With(ParseBinaryFragmentHeader(fc.p), LAMBDA rh :
    IF rh.err # NoErr THEN [n |-> 1, f |-> g1, err |-> rh.err, p |-> rh.p]
    ELSE IF ~rh.has THEN [n |-> 1, f |-> g1, err |-> NoErr, p |-> rh.p]
    ELSE With(ParseBinaryChunk(rh.p, rh.frag), LAMBDA rc :
    IF rc.err # NoErr THEN [n |-> 1, f |-> g1, err |-> rc.err, p |-> rc.p]
    ELSE [n |-> 1, f |-> [g1 EXCEPT !.ReverseBinaryFragment = rc.frag], err |-> NoErr,
          p |-> rc.p])))))))

----------------------------------------------------------------------------
(* The formatter: writeQuotedName, File.String, TextFragment.String,        *)
(* Line.String, BinaryFragment.String.                                      *)

\* quoteByte(b): the escape of a byte, or "" for a byte written as it is.
\* The names of the model hold no byte that is written as an octal escape.
quoteByte(b) ==
    CASE b = "\t" -> "\\t" [] b = "\n" -> "\\n" [] b = "\f" -> "\\f" [] b = "\r" -> "\\r"
      [] b = "\"" -> "\\\"" [] b = "\\" -> "\\\\" [] OTHER -> ""

RECURSIVE quotedBody(_, _)
quotedBody(s, i) ==
    IF i > Len(s) THEN ""
    ELSE (IF quoteByte(Char(s, i)) # "" THEN quoteByte(Char(s, i)) ELSE Char(s, i))
            \o quotedBody(s, i + 1)

\* writeQuotedName(b, s): the text written to b.
writeQuotedName(s) ==
    IF \E i \in 1..Len(s) : quoteByte(Char(s, i)) # ""
    THEN "\"" \o quotedBody(s, 1) \o "\"" ELSE s

\* LineOp.String()
OpString(op) ==
    CASE op = OpContext -> " " [] op = OpDelete -> "-" [] op = OpAdd -> "+" [] OTHER -> "?"

\* Line.String()
LineString(l) == OpString(l.Op) \o l.Line

RECURSIVE linesString(_, _)
linesString(lines, i) ==
    IF i > Len(lines) THEN ""
    ELSE LineString(lines[i])
            \o (IF NoEOL(lines[i]) THEN "\n\\ No newline at end of file\n" ELSE "")
            \o linesString(lines, i + 1)

\* TextFragment.String()
TextFragmentString(f) == Header(f) \o "\n" \o linesString(f.Lines, 1)

RECURSIVE fragmentsString(_, _)
fragmentsString(frags_, i) ==
    IF i > Len(frags_) THEN ""
    ELSE TextFragmentString(frags_[i]) \o fragmentsString(frags_, i + 1)

\* BinaryFragment.String(): the method and size, then the base85 lines of
\* deflateBinaryChunk(f.Data).  compress/zlib writes the empty data as the
\* 11 bytes 78 9c 01 00 00 ff ff 00 00 00 01, one line with length byte K.
BinaryFragmentString(f) ==
    (IF f.Method = BinaryPatchDelta THEN "delta " ELSE "literal ") \o FormatInt(f.Size, 10) \o "\n"
        \o (IF f.Data = "" THEN "Kc$@(M0RR6000031\n" ELSE "")

\* File.String()
FileString(f) ==
    LET aName == IF f.OldName = "" THEN f.NewName ELSE f.OldName
        bName == IF f.OldName = "" THEN f.NewName
                 ELSE IF f.NewName = "" THEN f.OldName ELSE f.NewName
    IN
    "diff --git " \o writeQuotedName("a/" \o aName) \o " "
        \o writeQuotedName("b/" \o bName) \o "\n"
    \o (IF f.OldMode # 0 /\ f.IsDelete
            THEN "deleted file mode " \o FormatInt(f.OldMode, 8) \o "\n"
        ELSE IF f.OldMode # 0 /\ f.NewMode # 0
            THEN "old mode " \o FormatInt(f.OldMode, 8) \o "\n"
        ELSE "")
    \o (IF f.NewMode # 0 /\ f.IsNew
            THEN "new file mode " \o FormatInt(f.NewMode, 8) \o "\n"
        ELSE IF f.NewMode # 0 /\ f.OldMode # 0
            THEN "new mode " \o FormatInt(f.NewMode, 8) \o "\n"
        ELSE "")
    \o (IF f.Score > 0 /\ (f.IsCopy \/ f.IsRename)
            THEN "similarity index " \o FormatInt(f.Score, 10) \o "%\n"
        ELSE IF f.Score > 0
            THEN "dissimilarity index " \o FormatInt(f.Score, 10) \o "%\n"
        ELSE "")
    \o (IF f.IsCopy /\ f.OldName # ""
            THEN "copy from " \o writeQuotedName(f.OldName) \o "\n" ELSE "")
    \o (IF f.IsCopy /\ f.NewName # ""
            THEN "copy to " \o writeQuotedName(f.NewName) \o "\n" ELSE "")
    \o (IF f.IsRename /\ f.OldName # ""
            THEN "rename from " \o writeQuotedName(f.OldName) \o "\n" ELSE "")
    \o (IF f.IsRename /\ f.NewName # ""
            THEN "rename to " \o writeQuotedName(f.NewName) \o "\n" ELSE "")
    \o (IF f.OldOIDPrefix # "" /\ f.NewOIDPrefix # ""
            THEN "index " \o f.OldOIDPrefix \o ".." \o f.NewOIDPrefix
                 \o (IF f.OldMode # 0
                        /\ ((f.NewMode = 0 /\ ~f.IsDelete) \/ f.OldMode = f.NewMode)
                     THEN " " \o FormatInt(f.OldMode, 8) ELSE "")
                 \o "\n"
        ELSE "")
    \o (IF f.IsBinary /\ f.BinaryFragment = NilBinaryFragment THEN "Binary files differ\n"
        ELSE IF f.IsBinary THEN
            "GIT binary patch\n" \o BinaryFragmentString(f.BinaryFragment) \o "\n"
            \o (IF f.ReverseBinaryFragment # NilBinaryFragment
                THEN BinaryFragmentString(f.ReverseBinaryFragment) \o "\n" ELSE "")
        ELSE "")
    \o (IF Len(f.TextFragments) > 0 THEN
            "--- " \o (IF f.OldName = "" THEN "/dev/null"
                       ELSE writeQuotedName("a/" \o f.OldName)) \o "\n"
            \o "+++ " \o (IF f.NewName = "" THEN "/dev/null"
                          ELSE writeQuotedName("b/" \o f.NewName)) \o "\n"
            \o fragmentsString(f.TextFragments, 1)
        ELSE "")

----------------------------------------------------------------------------
(* parser.ParseNextFileHeader and Parse.                                    *)

ErrStrayFragment == "patch fragment without file header: "

\* The loop of ParseNextFileHeader, pre being its preamble builder:
\* [has, f, pre, err, p, at], at the number of the line the header starts on.
RECURSIVE headerScan(_, _)
headerScan(p, pre) ==
    LET ret(has, f, text, err, q, at) ==
            [has |-> has, f |-> f, pre |-> text, err |-> err, p |-> q, at |-> at]
    IN
    With(ParseTextFragmentHeader(p), LAMBDA h :
    With(ParseGitFileHeader(p), LAMBDA g :
    With(ParseTraditionalFileHeader(p), LAMBDA t :
    With(ParserNext(p), LAMBDA nx :
        IF h.err = NoErr /\ h.has THEN
            ret(FALSE, NoFile, "", Errorf(h.p, -1, ErrStrayFragment \o Header(h.frag)), h.p, 0)
        ELSE IF h.err = NoErr /\ g.err # NoErr THEN ret(FALSE, NoFile, "", g.err, g.p, 0)
        ELSE IF h.err = NoErr /\ g.has THEN ret(TRUE, g.f, pre, NoErr, g.p, p.lineno)
        ELSE IF h.err = NoErr /\ t.err # NoErr THEN ret(FALSE, NoFile, "", t.err, t.p, 0)
        ELSE IF h.err = NoErr /\ t.has THEN ret(TRUE, t.f, pre, NoErr, t.p, p.lineno)
        \* NextLine:
        ELSE IF nx.err # NoErr THEN ret(FALSE, NoFile, "", NoErr, nx.p, 0)
        ELSE headerScan(nx.p, pre \o Line(p, 0))))))

ParseNextFileHeader(p) == headerScan(p, "")

\* An iteration of the loop of Parse that does not see the end of the input:
\* where no file header is left it goes on with the loop, the parser where
\* it was.
ParseIterationAgain(p, fs, pre) ==
    With(ParseNextFileHeader(p), LAMBDA h :
        [status |-> IF h.err # NoErr THEN "failed" ELSE "parsing",
         p |-> p, files |-> fs, preamble |-> pre, err |-> h.err, at |-> 0])

\* One iteration of the loop of Parse, from the parser p, the files and the
\* preamble so far: [status, p, files, preamble, err, at].  status is
\* "parsing" when the loop goes on, "done" when Parse returns without error,
\* "failed" when it returns err and "crashed" when it panics and returns
\* nothing.
ParseIteration(p, fs, pre) ==
    LET stop(q, e) ==
            [status |-> IF IsPanic(e) THEN "crashed" ELSE "failed",
             p |-> q, files |-> fs, preamble |-> pre, err |-> e, at |-> 0]
        add(q, f, text, at) ==
            [status |-> "parsing", p |-> q, files |-> Append(fs, f),
             preamble |-> IF Len(fs) = 0 THEN text ELSE pre, err |-> NoErr, at |-> at]
    IN
    With(ParseNextFileHeader(p), LAMBDA h :
    IF h.err # NoErr THEN stop(h.p, h.err)
    ELSE IF ~h.has THEN
        [status |-> "done", p |-> h.p, files |-> fs, preamble |-> pre, err |-> NoErr, at |-> 0]
    ELSE With(ParseTextFragments(h.p, h.f, 0), LAMBDA t :
    IF t.err # NoErr THEN stop(t.p, t.err)
    ELSE IF t.n > 0 THEN add(t.p, t.f, h.pre, h.at)
    ELSE With(ParseBinaryFragments(t.p, t.f), LAMBDA b :
    IF b.err # NoErr THEN stop(b.p, b.err)
    ELSE add(b.p, b.f, h.pre, h.at))))

RECURSIVE parseLoop(_, _, _)
parseLoop(p, fs, pre) ==
    With(ParseIteration(p, fs, pre), LAMBDA s :
        IF s.status = "parsing" THEN parseLoop(s.p, s.files, s.preamble) ELSE s)

\* Parse(r) on the lines in: [status, files, preamble, err]
Parse(in) ==
    With(ParserNext(NewParser(in)), LAMBDA b :
        IF b.err # NoErr
        THEN [status |-> "done", files |-> <<>>, preamble |-> "", err |-> NoErr]
        ELSE With(parseLoop(b.p, <<>>, ""), LAMBDA s :
            [status |-> s.status, files |-> s.files, preamble |-> s.preamble,
             err |-> s.err]))

----------------------------------------------------------------------------
(* The states of the parser and of the applier while the other one runs.   *)

NoRoundTrip == [of |-> 0, text |-> "", status |-> "", files |-> <<>>, err |-> NoErr]

ParseIdle ==
    /\ input = <<>>
    /\ parser = NewParser(<<>>)
    /\ files = <<>>
    /\ preamble = ""
    /\ perr = NoErr
    /\ pstatus = "idle"
    /\ fileLines = <<>>
    /\ scanFrom = 0
    /\ rt = NoRoundTrip

ApplyIdle ==
    /\ src = <<>>
    /\ lr = [pos |-> 0, n |-> 0]
    /\ dst = <<>>
    /\ frags = <<>>
    /\ status = "idle"
    /\ aerr = NoError


\* The state of a part of the model that is not in use.
Idle == [status |-> "idle"]

OthersIdle ==
    /\ ghdr = Idle
    /\ ap = Idle
    /\ bin = Idle
    /\ lra = Idle
    /\ ln = Idle
    /\ pm = Idle
    /\ nam = Idle

----------------------------------------------------------------------------
(* The inputs of the applier.                                              *)

\* The texts of complete source lines, and of a last line without line ending.
SrcTexts == {"a\n", "b\n"}
SrcTails == {"c"}

\* The source file of k complete lines: its lines alternate, so that a line
\* differs from its neighbours.
SrcFile(k) == [i \in 1..k |-> IF i % 2 = 1 THEN "a\n" ELSE "b\n"]

\* A source is its complete lines, followed or not by one unterminated line.
Sources ==
    {SrcFile(k) : k \in 0..MaxSrcLines}
        \cup {Append(SrcFile(k), t) : k \in 0..(MaxSrcLines - 1), t \in SrcTails}

\* The lines of fragments: old lines that can match or miss a source line,
\* with and without line ending, and added lines.  A line has text: a line of
\* no bytes and no line ending is no line of a file.
FragLines ==
    [Op : {OpContext, OpDelete}, Line : SrcTexts \cup SrcTails]
        \cup [Op : {OpAdd}, Line : {"x\n"}]
        \cup [Op : {OpContext}, Line : {""}]

\* The fragment at old position pos with the given lines; its counters are
\* the ones of its lines, off by miscount in OldLines.
MkFragment(pos, lines, miscount) ==
    LET c == CountLines(lines, 1, ZeroCounts) IN
    [OldPosition |-> pos, OldLines |-> c.oldLines + miscount,
     NewPosition |-> IF pos = 0 THEN 1 ELSE pos, NewLines |-> c.newLines,
     LinesAdded |-> c.addedLines, LinesDeleted |-> c.deletedLines,
     LeadingContext |-> c.leadingContext, TrailingContext |-> c.trailingContext,
     Lines |-> lines]

\* The fragments of k lines: at every old position, and, for one line, with
\* a header that counts one old line too many.
FragmentsOfLen ==
    [k \in 1..MaxPatchLines |->
        {MkFragment(pos, lines, 0) : pos \in 0..(MaxSrcLines + 1), lines \in [1..k -> FragLines]}
          \cup IF k = 1 THEN {MkFragment(1, <<l>>, 1) : l \in FragLines} ELSE {}]

\* The number of lines in the fragments fs.
RECURSIVE PatchLines(_)
PatchLines(fs) == IF fs = <<>> THEN 0 ELSE Len(Head(fs).Lines) + PatchLines(Tail(fs))

----------------------------------------------------------------------------
(* File.ApplyStrict on a text file: one step per fragment of the loop,    *)
(* then the copy of the rest of the source.                                *)

Init ==
    /\ src \in Sources
    /\ lr = [pos |-> 0, n |-> 0]
    /\ dst = <<>>
    /\ frags = <<>>
    /\ status = "applying"
    /\ aerr = NoError
    /\ ParseIdle
    /\ OthersIdle

\* One iteration of the loop of File.ApplyStrict: frag.ApplyStrict(dst, lr),
\* and the return of applyError(err, fragNum(i)) if it fails.
ApplyFragment(f) ==
    /\ status = "applying"
    /\ Len(frags) < MaxFrags
    /\ LET res == TextFragmentApplyStrict(f, lr, dst) IN
        /\ lr' = res.r
        /\ dst' = res.dst
        /\ IF res.e.err = Nil
           THEN status' = "applying" /\ aerr' = NoError
           ELSE status' = "failed"
                /\ aerr' = [res.e EXCEPT !.Fragment = Len(frags) + 1]
    /\ frags' = Append(frags, f)
    /\ UNCHANGED <<src, pvars, xvars>>

\* The end of File.ApplyStrict: io.Copy(dst, unwrapLineReader(lr)).
CopyRest ==
    /\ status = "applying"
    /\ dst' = dst \o SubSeq(src, lr.pos + 1, Len(src))
    /\ lr' = [lr EXCEPT !.pos = Len(src)]
    /\ status' = "done"
    /\ UNCHANGED <<src, frags, aerr, pvars, xvars>>

Next ==
    \/ \E k \in 1..(MaxPatchLines - PatchLines(frags)) :
            \E f \in FragmentsOfLen[k] : ApplyFragment(f)
    \/ CopyRest

Spec == Init /\ [][Next]_vars

----------------------------------------------------------------------------
(* The inputs of the parser.                                               *)

MaxBlocks == 3
MaxHunkLines == 4

\* Patches are made of blocks of lines: text that is no part of a patch, a
\* line that starts like a fragment header without being one, a fragment
\* header, fragment lines, Git file headers (of a rename, with a metadata
\* line that is no index line, with no name), a score line and the markers of
\* a binary file, without and with data.
Blocks ==
    { <<"x\n">>,
      <<"@@ -1 +1\n">>,
      <<"@@ -1 +1 @@\n">>,
      <<"-a\n", "+b\n">>,
      <<"\\ No newline at end of file\n">>,
      <<"diff --git a/f b/g\n", "rename from f\n", "rename to g\n">>,
      <<"diff --git a/h b/h\n", "index 1\n">>,
      <<"similarity index 90\n">>,
      <<"Binary files differ\n">>,
      <<"GIT binary patch\n", "literal 0\n", "HcmV?d00001\n", "\n">> }

RECURSIVE Flatten(_)
Flatten(bs) == IF bs = <<>> THEN <<>> ELSE Head(bs) \o Flatten(Tail(bs))

\* The headers of patches of one file with one fragment: of Git, and
\* traditional ones, of a changed and of a new file.
FileHeaders ==
    { <<"diff --git a/f b/g\n", "rename from f\n", "rename to g\n">>,
      <<"--- f\t2019-03-21 23:00:00.0 -0700\n", "+++ f\t2019-03-21 23:30:00.0 -0700\n">>,
      <<"--- /dev/null\n", "+++ f\t2019-03-21 23:30:00.0 -0700\n">> }

FragmentHeaders ==
    { "@@ -1,2 +1,2 @@\n", "@@ -0,1 +1 @@\n", "@@ -1,3 +1,3 @@ c\n", "@@ -0,0 +1 @@\n",
      "@@ -0,3 +1,3 @@\n", "@@ --1 +-1,2 @@\n", "@@ -1,-1 +1,+1 @@\n" }

HunkLines == {" a\n", "-a\n", "+b\n", "\n", "\\ No newline at end of file\n"}

\* A last line may lack its line ending.
CutLast(in) ==
    IF in = <<>> THEN in
    ELSE [in EXCEPT ![Len(in)] = TrimSuffix(@, "\n")]

Inputs ==
    LET whole ==
            {Flatten(bs) : bs \in SeqsUpTo(Blocks, MaxBlocks)}
              \cup {h \o <<fh>> \o body :
                        h \in FileHeaders, fh \in FragmentHeaders,
                        body \in SeqsUpTo(HunkLines, MaxHunkLines)}
    IN
    whole \cup {CutLast(in) : in \in {w \in whole : Len(w) <= 2}}

----------------------------------------------------------------------------
(* Parse, one step per iteration of its loop, and the formatting of a      *)
(* returned file with the parse of the text.                               *)

ParseInit ==
    /\ input \in Inputs
    /\ parser = NewParser(input)
    /\ files = <<>>
    /\ preamble = ""
    /\ perr = NoErr
    /\ pstatus = "start"
    /\ fileLines = <<>>
    /\ scanFrom = 0
    /\ rt = NoRoundTrip
    /\ ApplyIdle
    /\ OthersIdle

\* The start of Parse: the first p.Next(); at the end of the input Parse
\* returns no file, no preamble and no error.
ParseBegin ==
    /\ pstatus = "start"
    /\ \E b \in {ParserNext(parser)} :
        /\ parser' = b.p
        /\ pstatus' = IF b.err # NoErr THEN "done" ELSE "parsing"
    /\ UNCHANGED <<input, files, preamble, perr, fileLines, scanFrom, rt, avars, xvars>>

\* One iteration of the loop of Parse: the next file header, the fragments
\* of the file, and the return of Parse at the end of the input or at an
\* error.
ParseFile ==
    /\ pstatus = "parsing"
    /\ \E s \in {ParseIteration(parser, files, preamble)} :
        /\ parser' = s.p
        /\ files' = s.files
        /\ preamble' = s.preamble
        /\ perr' = s.err
        /\ pstatus' = s.status
        /\ fileLines' = IF s.status = "parsing" THEN Append(fileLines, s.at) ELSE fileLines
    /\ scanFrom' = parser.lineno
    /\ UNCHANGED <<input, rt, avars, xvars>>

\* files[i].String() of a file that Parse returned, and Parse of the text.
FormatAndReparse(i) ==
    /\ pstatus = "done"
    /\ i \in 1..Len(files)
    /\ \E text \in {FileString(files[i])} :
        \E r \in {Parse(SplitLines(text))} :
            rt' = [of |-> i, text |-> text, status |-> r.status, files |-> r.files,
                   err |-> r.err]
    /\ UNCHANGED <<input, parser, files, preamble, perr, pstatus, fileLines, scanFrom, avars, xvars>>

ParseNext ==
    \/ ParseBegin
    \/ ParseFile
    \/ \E i \in 1..MaxBlocks : FormatAndReparse(i)

ParseSpec == ParseInit /\ [][ParseNext]_vars

\* Before the call of Parse: nothing is parsed and nothing else runs.
ParseLiveInit == ApplyIdle /\ ParseIdle /\ OthersIdle

\* Parse(r), called with a reader over an input.
ParseCall ==
    /\ pstatus = "idle"
    /\ input' \in Inputs
    /\ parser' = NewParser(input')
    /\ pstatus' = "start"
    /\ UNCHANGED <<files, preamble, perr, fileLines, scanFrom, rt, avars, xvars>>

\* Parse as a running program: once called, it takes the steps of its loop
\* one after the other until it returns or panics (a call of a function
\* that has not ended goes on).
ParseLiveSpec ==
    /\ ParseLiveInit
    /\ [][ParseCall \/ ParseBegin \/ ParseFile]_vars
    /\ WF_vars(ParseBegin \/ ParseFile)

----------------------------------------------------------------------------
(* The metadata lines of a Git file header, handed to parseGitHeaderData   *)
(* one after the other, as the loop of the header parser does.             *)

MaxHeaderLines == 3

HeaderLines ==
    { "new file mode 100644\n", "deleted file mode 100644\n",
      "old mode 100644\n", "new mode 100755\n",
      "index 0000000..e69de29 100644\n", "index 0000000..e69de29\n",
      "--- a/e\n", "--- /dev/null\n", "+++ b/e\n", "+++ /dev/null\n",
      "rename from e\n", "rename to g\n", "rename from e f\n", "copy to g\th\n",
      "similarity index 90\n", "similarity index 100\n", "similarity index 101\n",
      "dissimilarity index 9001\n", "similarity index 0\n",
      "similarity index -5\n", "dissimilarity index +7\n", "similarity index 88%\n",
      "similarity index 100%\n", "dissimilarity index 0%\n", "similarity index 12ab%\n",
      "@@ -1 +1 @@\n" }

DefaultNames == {"", "e"}

\* f := &File{} and the default name of the "diff --git" line.
HeaderInit ==
    /\ ghdr \in {[status |-> "reading", f |-> NoFile, defaultName |-> n, lines |-> <<>>] :
                    n \in DefaultNames}
    /\ ApplyIdle
    /\ ParseIdle
    /\ ap = Idle
    /\ bin = Idle
    /\ lra = Idle
    /\ ln = Idle
    /\ pm = Idle
    /\ nam = Idle

\* parseGitHeaderData(f, line, defaultName) for the next line: it fills f,
\* ends the header, or fails.
HeaderLine(line) ==
    /\ ghdr.status = "reading"
    /\ Len(ghdr.lines) < MaxHeaderLines
    /\ \E d \in {parseGitHeaderData(ghdr.f, line, ghdr.defaultName)} :
        ghdr' = [ghdr EXCEPT !.status = IF d.panic THEN "crashed"
                                      ELSE IF d.err # "" THEN "failed"
                                      ELSE IF d.end THEN "ended"
                                      ELSE "reading",
                           !.f = d.f,
                           !.lines = Append(@, line)]
    /\ UNCHANGED <<avars, pvars, ap, bin, lra, ln, pm, nam>>

HeaderNext == \E line \in HeaderLines : HeaderLine(line)

HeaderSpec == HeaderInit /\ [][HeaderNext]_vars

----------------------------------------------------------------------------
(* The Applier: NewApplier and the calls of ApplyTextFragment,             *)
(* ApplyBinaryFragment and ApplyFile on it, as TestApplierInvariants       *)
(* requires them.  A call that the applier accepts applies its argument,   *)
(* with or without an error of its own.                                    *)

MaxCalls == 4

\* applyType: what the applier has been used for.
applyInitial == "initial"
applyTextFragment == "text"
applyBinaryFragment == "binary"
applyFile == "file"

errApplyInProgress == "gitdiff: incompatible apply in progress"

\* A text fragment on an applier that was used for another kind of apply.
TextAcceptedAlways(t) == TRUE

\* ApplyTextFragment is accepted by a new applier and after text fragments.
TextAccepted(t) == t \in {applyInitial, applyTextFragment}

\* ApplyBinaryFragment and ApplyFile are accepted by a new applier only.
OnlyFirst(t) == t = applyInitial

\* a := NewApplier(src)
ApplierInit ==
    /\ ap = [status |-> "open", applyType |-> applyInitial, calls |-> <<>>]
    /\ ApplyIdle
    /\ ParseIdle
    /\ ghdr = Idle
    /\ bin = Idle
    /\ lra = Idle
    /\ ln = Idle
    /\ pm = Idle
    /\ nam = Idle

\* One call on the applier: it fails with errApplyInProgress if the applier
\* does not accept it, and it leaves the applier with the type of the call.
ApplierCall(kind, accepted, result) ==
    /\ ap.status = "open"
    /\ Len(ap.calls) < MaxCalls
    /\ ap' = [ap EXCEPT
                !.applyType = IF accepted THEN kind ELSE @,
                !.calls = Append(@, [kind |-> kind,
                                     err |-> IF accepted THEN result
                                             ELSE errApplyInProgress])]
    /\ UNCHANGED <<avars, pvars, ghdr, bin, lra, ln, pm, nam>>

ApplyTextFragmentCall ==
    \E r \in {"nil", "error"} : ApplierCall(applyTextFragment, TextAccepted(ap.applyType), r)

ApplyBinaryFragmentCall ==
    \E r \in {"nil", "error"} : ApplierCall(applyBinaryFragment, OnlyFirst(ap.applyType), r)

ApplyFileCall ==
    \E r \in {"nil", "error"} : ApplierCall(applyFile, OnlyFirst(ap.applyType), r)

ApplierNext ==
    \/ ApplyTextFragmentCall
    \/ ApplyBinaryFragmentCall
    \/ ApplyFileCall

ApplierSpec == ApplierInit /\ [][ApplierNext]_vars

----------------------------------------------------------------------------
(* Binary deltas: applyBinaryDeltaFragment on a source of bytes.            *)

MaxDeltaBytes == 6
MaxSrcBytes == 2

defaultSize == 65536


\* op&mask > 0 for mask = 1 << n
BitSet(op, n) == (op \div 2 ^ n) % 2 = 1

\* d[i:], for a zero-based i.
From(d, i) == SubSeq(d, i + 1, Len(d))

\* src.ReadAt(b, off) of a reader over the bytes src with len(b) = n: the
\* bytes read, and io.EOF when there are fewer than n.
ReadAt(bsrc, n, off) ==
    IF off >= Len(bsrc) THEN [b |-> <<>>, err |-> EOF]
    ELSE [b |-> SubSeq(bsrc, off + 1, Min(off + n, Len(bsrc))),
          err |-> IF off + n > Len(bsrc) THEN EOF ELSE Nil]

\* The loop of readBinaryDeltaSize from index i on, with the size so far
\* and 1 << shift as mult.
RECURSIVE readSizeFrom(_, _, _, _)
readSizeFrom(d, i, size, mult) ==
    IF i > Len(d) THEN [size |-> size, rest |-> <<>>]
    ELSE IF d[i] <= 127
         THEN [size |-> size + (d[i] % 128) * mult, rest |-> From(d, i)]
         ELSE readSizeFrom(d, i + 1, size + (d[i] % 128) * mult, mult * 128)

readBinaryDeltaSize(d) == readSizeFrom(d, 1, 0, 1)

\* A source of any size passes the check.
checkBinarySrcSizeNone(size, bsrc) == Nil

checkBinarySrcSize(size, bsrc) ==
    With(ReadAt(bsrc, 2, IF size > 0 THEN size - 1 ELSE size), LAMBDA r :
        IF \/ r.err = EOF /\ (size = 0 /\ Len(r.b) = 0)
           \/ size > 0 /\ Len(r.b) = 1
        THEN Nil
        ELSE IF r.err # Nil /\ r.err # EOF THEN r.err
        ELSE "conflict: fragment src size does not match actual src size")

\* applyBinaryDeltaAdd, with the bytes written to w as out.
applyBinaryDeltaAdd(op, delta) ==
    IF Len(delta) < op
    THEN [n |-> 0, rest |-> delta, err |-> "corrupt binary delta: incomplete add", out |-> <<>>]
    ELSE [n |-> op, rest |-> From(delta, op), err |-> Nil,
          out |-> SubSeq(delta, 1, op)]

\* The closure unpack of applyBinaryDeltaCopy from bit i on: v so far, the
\* delta left, 1 << (8 * i) as mult, and the error it sets.
RECURSIVE unpack(_, _, _, _, _, _, _)
unpack(op, delta, start, bits, i, v, mult) ==
    IF i >= bits THEN [v |-> v, delta |-> delta, err |-> Nil]
    ELSE IF BitSet(op, i + start)
         THEN IF Len(delta) = 0
              THEN [v |-> v, delta |-> delta, err |-> "corrupt binary delta: incomplete copy"]
              ELSE unpack(op, From(delta, 1), start, bits, i + 1,
                          v + delta[1] * mult, mult * 256)
         ELSE unpack(op, delta, start, bits, i + 1, v, mult * 256)

\* applyBinaryDeltaCopy, with the bytes written to w as out.
applyBinaryDeltaCopy(op, delta, bsrc) ==
    With(unpack(op, delta, 0, 4, 0, 0, 1), LAMBDA o :
    With(unpack(op, o.delta, 4, 3, 0, 0, 1), LAMBDA s :
        IF o.err # Nil \/ s.err # Nil
        THEN [n |-> 0, rest |-> s.delta, err |-> "corrupt binary delta: incomplete copy", out |-> <<>>]
        ELSE With(IF s.v = 0 THEN defaultSize ELSE s.v, LAMBDA size :
             With(ReadAt(bsrc, size, o.v), LAMBDA r :
                IF r.err # Nil
                THEN [n |-> 0, rest |-> s.delta, err |-> wrapEOF(r.err), out |-> <<>>]
                ELSE [n |-> size, rest |-> s.delta, err |-> Nil, out |-> r.b]))))

\* Any number of bytes written passes the check.
checkDstSizeNone(dstSize) == Nil

\* The check of the bytes written against the size of the result.
checkDstSize(dstSize) == IF dstSize # 0 THEN "corrupt binary delta: insufficient or extra data" ELSE Nil

\* The loop of applyBinaryDeltaFragment over the opcodes: the bytes written
\* to dst and the error returned.
RECURSIVE applyDeltaOps(_, _, _, _)
applyDeltaOps(out, dstSize, delta, bsrc) ==
    IF Len(delta) = 0 THEN [out |-> out, err |-> checkDstSize(dstSize)]
    ELSE IF delta[1] = 0 THEN [out |-> out, err |-> "invalid delta opcode 0"]
    ELSE With(IF delta[1] >= 128
              THEN applyBinaryDeltaCopy(delta[1], From(delta, 1), bsrc)
              ELSE applyBinaryDeltaAdd(delta[1], From(delta, 1)), LAMBDA r :
            IF r.err # Nil THEN [out |-> out, err |-> r.err]
            ELSE applyDeltaOps(out \o r.out, dstSize - r.n, r.rest, bsrc))

applyBinaryDeltaFragment(bsrc, frag) ==
    With(readBinaryDeltaSize(frag), LAMBDA s :
        IF checkBinarySrcSize(s.size, bsrc) # Nil
        THEN [out |-> <<>>, err |-> checkBinarySrcSize(s.size, bsrc)]
        ELSE With(readBinaryDeltaSize(s.rest), LAMBDA d :
                applyDeltaOps(<<>>, d.size, d.rest, bsrc)))

\* The deltas: their bytes are sizes and add opcodes 0, 1 and 2, and the copy
\* opcodes with one size byte (0x90) and with one offset and one size byte
\* (0x91), which are also size bytes that are continued; their sizes take at
\* most four bytes, that is 28 bits.
Deltas ==
    {d \in SeqsUpTo({0, 1, 2, 144, 145}, MaxDeltaBytes) :
        \A i \in 1..(Len(d) - 3) : \E j \in i..(i + 3) : d[j] <= 127}

\* The sources: the first bytes of 10, 11, 12, ...
BinarySources == {[i \in 1..n |-> 9 + i] : n \in 0..MaxSrcBytes}

BinaryInit ==
    /\ bin \in {[status |-> "ready", src |-> s, frag |-> d, out |-> <<>>, err |-> Nil] :
                   s \in BinarySources, d \in Deltas}
    /\ ApplyIdle
    /\ ParseIdle
    /\ ghdr = Idle
    /\ ap = Idle
    /\ lra = Idle
    /\ ln = Idle
    /\ pm = Idle
    /\ nam = Idle

\* applyBinaryDeltaFragment(dst, src, frag)
ApplyBinaryDelta ==
    /\ bin.status = "ready"
    /\ \E r \in {applyBinaryDeltaFragment(bin.src, bin.frag)} :
          bin' = [bin EXCEPT !.status = "done", !.out = r.out, !.err = r.err]
    /\ UNCHANGED <<avars, pvars, ghdr, ap, lra, ln, pm, nam>>

BinarySpec == BinaryInit /\ [][ApplyBinaryDelta]_vars

----------------------------------------------------------------------------
(* The LineReaderAt: lineReaderAt.ReadLinesAt with its lazy line index.    *)
(* The reader looks at a byte only to compare it with '\n', so a source is *)
(* given by the lengths of its lines and by whether the last one ends with *)
(* a newline, and a line that is returned by the offsets of its first byte *)
(* and of the byte after it.                                                *)

MaxSrcLineCount == 3
MaxCount == 2
MaxLineOffset == 4

\* var buf [1024]byte
indexBufferSize == 1024


\* The sources: lines of 1, 512 and 1024 bytes.
LineSources ==
    {[lens |-> l, nl |-> b] : l \in SeqsUpTo({1, 512, 1024}, MaxSrcLineCount), b \in BOOLEAN}
        \ {[lens |-> <<>>, nl |-> FALSE]}

\* The offset of the byte after line k of the source, k counted from 1.
RECURSIVE LineEnd(_, _)
LineEnd(s, k) == IF k = 0 THEN 0 ELSE LineEnd(s, k - 1) + s.lens[k]

\* len of the source
SrcSize(s) == LineEnd(s, Len(s.lens))

\* The offsets after the newlines of the source that are above lo and at
\* most hi, in their order.
RECURSIVE NewlinesIn(_, _, _, _)
NewlinesIn(s, k, lo, hi) ==
    IF k > Len(s.lens) \/ (k = Len(s.lens) /\ ~s.nl) THEN <<>>
    ELSE IF LineEnd(s, k) > hi THEN <<>>
    ELSE IF LineEnd(s, k) > lo THEN <<LineEnd(s, k)>> \o NewlinesIn(s, k + 1, lo, hi)
    ELSE NewlinesIn(s, k + 1, lo, hi)

\* The number of bytes that r.r.ReadAt(b, off) reads for len(b) = n; the
\* read returns io.EOF if they are fewer than n.
ReadCount(s, n, off) ==
    IF off >= SrcSize(s) THEN 0 ELSE Min(n, SrcSize(s) - off)

\* The last byte read is the last byte of the source and no newline.
PartialLast(s, off) == off = SrcSize(s) /\ ~s.nl

\* indexTo at the end of input: the index after a read of n bytes up to
\* offset that returned io.EOF.
atEOF(s, index, n, offset) ==
    IF n > 0 /\ PartialLast(s, offset) THEN Append(index, offset) ELSE index

\* The loop of indexTo: the index and eof after it.
RECURSIVE indexLoop(_, _, _, _)
indexLoop(s, index, offset, line) ==
    IF Len(index) >= line THEN [index |-> index, eof |-> FALSE]
    ELSE With(ReadCount(s, indexBufferSize, offset), LAMBDA n :
            IF n < indexBufferSize
            THEN [index |-> atEOF(s, index \o NewlinesIn(s, 1, offset, offset + n),
                                  n, offset + n),
                  eof |-> TRUE]
            ELSE indexLoop(s, index \o NewlinesIn(s, 1, offset, offset + n),
                           offset + n, line))

indexTo(s, index, line) ==
    indexLoop(s, index, IF Len(index) > 0 THEN index[Len(index)] ELSE 0, line)

\* lookupLines(index, start, n): size and offset, or the panic of
\* index[len(index)-1] on an empty index.
lookupLines(index, start, n) ==
    With(IF start > Len(index)
         THEN (IF Len(index) = 0 THEN -1 ELSE index[Len(index)])
         ELSE IF start > 0 THEN index[start] ELSE 0, LAMBDA offset :
        IF offset < 0 \/ (n > 0 /\ start + n > Len(index) /\ Len(index) = 0)
        THEN [panic |-> TRUE, size |-> 0, offset |-> 0]
        ELSE [panic |-> FALSE,
              size |-> IF n <= 0 THEN 0
                       ELSE IF start + n > Len(index) THEN index[Len(index)] - offset
                       ELSE index[start + n] - offset,
              offset |-> offset])

\* The loop of ReadLinesAt that cuts the lines out of the bytes read.
cutLines(index, count, offset, readOffset) ==
    [k \in 1..Min(count, IF Len(index) > offset THEN Len(index) - offset ELSE 0) |->
        [start |-> IF offset + k - 1 > 0 THEN index[offset + k - 1] ELSE readOffset,
         end |-> index[offset + k]]]

\* ReadLinesAt after the index is made: n, the lines and the error.
readIndexed(s, index, count, offset) ==
    IF offset > Len(index) THEN [lines |-> <<>>, err |-> EOF]
    ELSE With(lookupLines(index, offset, count), LAMBDA l :
        IF l.panic THEN [lines |-> <<>>, err |-> "panic: index out of range [-1]"]
        ELSE IF ReadCount(s, l.size, l.offset) < l.size \/ l.offset >= SrcSize(s)
        THEN [lines |-> <<>>, err |-> "ReadLinesAt: corrupt line index or changed source data"]
        ELSE With(cutLines(index, count, offset, l.offset), LAMBDA c :
            [lines |-> c,
             err |-> IF Len(c) < count \/ PartialLast(s, l.offset + l.size)
                     THEN EOF ELSE Nil]))

\* &lineReaderAt{r: r}
LineReaderInit ==
    /\ lra \in {[status |-> "open", src |-> s, index |-> <<>>, eof |-> FALSE,
                 before |-> <<>>, count |-> 0, offset |-> 0, lines |-> <<>>,
                 err |-> Nil] : s \in LineSources}
    /\ ApplyIdle
    /\ ParseIdle
    /\ ghdr = Idle
    /\ ap = Idle
    /\ bin = Idle
    /\ ln = Idle
    /\ pm = Idle
    /\ nam = Idle

\* n, err := r.ReadLinesAt(lines, offset) with len(lines) = count
ReadLinesAt(count, offset) ==
    /\ lra.status = "open"
    /\ \E ix \in {IF count > 0 /\ offset + count > Len(lra.index) /\ ~lra.eof
                  THEN indexTo(lra.src, lra.index, offset + count)
                  ELSE [index |-> lra.index, eof |-> lra.eof]} :
       \E r \in {IF count = 0 THEN [lines |-> <<>>, err |-> Nil]
                 ELSE readIndexed(lra.src, ix.index, count, offset)} :
          lra' = [lra EXCEPT !.status = IF r.err = "panic: index out of range [-1]" THEN "crashed" ELSE "open",
                             !.index = ix.index, !.eof = ix.eof,
                             !.before = lra.index,
                             !.count = count, !.offset = offset,
                             !.lines = r.lines, !.err = r.err]
    /\ UNCHANGED <<avars, pvars, ghdr, ap, bin, ln, pm, nam>>

LineReaderNext ==
    \E count \in 0..MaxCount, offset \in 0..MaxLineOffset : ReadLinesAt(count, offset)

LineReaderSpec == LineReaderInit /\ [][LineReaderNext]_vars

----------------------------------------------------------------------------
(* The line source of the parser on its own: calls of Next on a new parser. *)

MaxNextAfterEOF == 3

\* The inputs: complete lines, followed or not by a line without newline.
LineInputs ==
    {l \o t : l \in SeqsUpTo(SrcTexts, MaxSrcLines),
              t \in {<<>>} \cup {<<x>> : x \in SrcTails}}

\* p := newTestParser(content, false)
LinesInit ==
    /\ ln \in {[status |-> "open", in |-> i, p |-> NewParser(i), calls |-> 0,
                err |-> NoErr] : i \in LineInputs}
    /\ ApplyIdle
    /\ ParseIdle
    /\ ghdr = Idle
    /\ ap = Idle
    /\ bin = Idle
    /\ lra = Idle
    /\ pm = Idle
    /\ nam = Idle

\* err := p.Next()
NextCall ==
    /\ ln.status = "open"
    /\ ln.calls < Len(ln.in) + MaxNextAfterEOF
    /\ \E r \in {ParserNext(ln.p)} :
          ln' = [ln EXCEPT !.p = r.p, !.err = r.err, !.calls = @ + 1]
    /\ UNCHANGED <<avars, pvars, ghdr, ap, bin, lra, pm, nam>>

LinesSpec == LinesInit /\ [][NextCall]_vars

----------------------------------------------------------------------------
(* The methods of the parser that parse an object, each called on its own  *)
(* on a parser that is on the first line of an input.                      *)

\* The methods, ParseTextChunk with the line counts of its fragment.
Methods ==
    {[name |-> n, old |-> 0, new |-> 0] :
        n \in {"ParseGitFileHeader", "ParseTraditionalFileHeader",
               "ParseTextFragmentHeader", "ParseTextFragments",
               "ParseBinaryMarker", "ParseBinaryFragmentHeader", "ParseBinaryChunk"}}
      \cup {[name |-> "ParseTextChunk", old |-> c[1], new |-> c[2]] :
               c \in {<<1, 1>>, <<2, 2>>, <<0, 1>>}}

\* The inputs: the patches; those with binary data also from their second
\* and third line on, where the header and the data of the binary fragment
\* start; a header of a binary fragment that is not valid; and the markers of
\* a binary file without data in their other forms.
MethodInputs ==
    Inputs
      \cup {SubSeq(i, k, Len(i)) :
               i \in {j \in Inputs : j # <<>> /\ j[1] = "GIT binary patch\n"}, k \in 2..3}
      \cup { <<"literal x\n", "\n">>, <<"Files differ\n">>,
             <<"Binary files a/e and b/e differ\n", "x\n">> }

\* What a method returns, for the Go results (obj, err): nil, nil; an object
\* and nil; nil and an error; or nothing, as it panics.
ResultOf(has, err) ==
    IF IsPanic(err) THEN "panic"
    ELSE IF err # NoErr THEN "error"
    ELSE IF has THEN "object" ELSE "nil"

\* The call of method m on the parser p: what it returns and the parser
\* after it.
CallMethod(m, p) ==
    IF m.name = "ParseGitFileHeader" THEN
        With(ParseGitFileHeader(p), LAMBDA r : [res |-> ResultOf(r.has, r.err), p |-> r.p])
    ELSE IF m.name = "ParseTraditionalFileHeader" THEN
        With(ParseTraditionalFileHeader(p), LAMBDA r :
            [res |-> ResultOf(r.has, r.err), p |-> r.p])
    ELSE IF m.name = "ParseTextFragmentHeader" THEN
        With(ParseTextFragmentHeader(p), LAMBDA r :
            [res |-> ResultOf(r.has, r.err), p |-> r.p])
    ELSE IF m.name = "ParseTextChunk" THEN
        With(ParseTextChunk(p, [NoFragment EXCEPT !.OldLines = m.old, !.NewLines = m.new]),
             LAMBDA r : [res |-> ResultOf(TRUE, r.err), p |-> r.p])
    ELSE IF m.name = "ParseTextFragments" THEN
        With(ParseTextFragments(p, NoFile, 0), LAMBDA r :
            [res |-> ResultOf(r.n > 0, r.err), p |-> r.p])
    ELSE IF m.name = "ParseBinaryMarker" THEN
        With(ParseBinaryMarker(p), LAMBDA r : [res |-> ResultOf(r.isBinary, NoErr), p |-> r.p])
    ELSE IF m.name = "ParseBinaryFragmentHeader" THEN
        With(ParseBinaryFragmentHeader(p), LAMBDA r :
            [res |-> ResultOf(r.has, r.err), p |-> r.p])
    ELSE With(ParseBinaryChunk(p, [NilBinaryFragment EXCEPT !.Method = BinaryPatchLiteral]),
              LAMBDA r : [res |-> ResultOf(TRUE, r.err), p |-> r.p])

\* p := newTestParser(input, true): a parser after its first Next.
MethodInit ==
    /\ pm \in {[status |-> "ready", in |-> i, method |-> m,
                before |-> ParserNext(NewParser(i)).p,
                after |-> ParserNext(NewParser(i)).p, res |-> "nil"] :
                  i \in MethodInputs, m \in Methods}
    /\ ApplyIdle
    /\ ParseIdle
    /\ ghdr = Idle
    /\ ap = Idle
    /\ bin = Idle
    /\ lra = Idle
    /\ ln = Idle
    /\ nam = Idle

\* test.Parse(p)
ParseObject ==
    /\ pm.status = "ready"
    /\ \E r \in {CallMethod(pm.method, pm.before)} :
          pm' = [pm EXCEPT !.status = "called", !.after = r.p, !.res = r.res]
    /\ UNCHANGED <<avars, pvars, ghdr, ap, bin, lra, ln, nam>>

MethodSpec == MethodInit /\ [][ParseObject]_vars

----------------------------------------------------------------------------
(* Names on their own: writeQuotedName writes a name, more text of the line *)
(* may follow it, and parseName reads the name back from the text.          *)

MaxNameLen == 3

\* The file names: up to MaxNameLen bytes, among them bytes that are written
\* as they are (a letter, a space) and bytes that make the formatter quote.
Names == {Concat(n) : n \in SeqsUpTo({"e", " ", "\t", "\\", "\""}, MaxNameLen)}

\* A name and the text that follows it on its line.
NameInit ==
    /\ nam \in {[status |-> "name", name |-> n, tail |-> t, text |-> "", term |-> "",
                drop |-> 0, res |-> [ok |-> FALSE, name |-> "", n |-> 0]] :
                   n \in Names, t \in {"", "\n", " g\n", "\tg\n", "\ng"}}
    /\ ApplyIdle
    /\ ParseIdle
    /\ ghdr = Idle
    /\ ap = Idle
    /\ bin = Idle
    /\ lra = Idle
    /\ ln = Idle
    /\ pm = Idle

\* writeQuotedName(b, nam.name), and the rest of the line written after it.
WriteName ==
    /\ nam.status = "name"
    /\ nam' = [nam EXCEPT !.status = "text", !.text = writeQuotedName(nam.name) \o nam.tail]
    /\ UNCHANGED <<avars, pvars, ghdr, ap, bin, lra, ln, pm>>

\* parseName(nam.text, term, dropPrefix)
ParseName(term, dropPrefix) ==
    /\ nam.status = "text"
    /\ nam' = [nam EXCEPT !.status = "parsed", !.term = term, !.drop = dropPrefix,
                        !.res = parseName(nam.text, term, dropPrefix)]
    /\ UNCHANGED <<avars, pvars, ghdr, ap, bin, lra, ln, pm>>

\* The terminators callers ask for: "" is a negative term (space or tab),
\* "NUL" is the rune 0, which is no byte of any text here (to the end).
NameNext ==
    \/ WriteName
    \/ \E term \in {"", "\t", "NUL"}, dropPrefix \in 0..1 : ParseName(term, dropPrefix)

NameSpec == NameInit /\ [][NameNext]_vars


----------------------------------------------------------------------------
(* What the claims about the applier speak of.                             *)

\* The zero-indexed first old line of a fragment and the end of its old range.
FragStart(f) == IF f.OldPosition = 0 THEN 0 ELSE f.OldPosition - 1
FragEnd(f) == FragStart(f) + f.OldLines

\* The texts of the old (Context, Delete), new (Context, Add) and added lines.
OldTexts(f) == LET S == SelectSeq(f.Lines, Old) IN [i \in 1..Len(S) |-> S[i].Line]
NewTexts(f) == LET S == SelectSeq(f.Lines, New) IN [i \in 1..Len(S) |-> S[i].Line]
AddedTexts(f) ==
    LET S == SelectSeq(f.Lines, LAMBDA l : l.Op = OpAdd) IN [i \in 1..Len(S) |-> S[i].Line]

\* The one-indexed source line p; past the end of the source there is no
\* line, which reads as the empty text.
SrcHasLine(p) == p >= 1 /\ p <= Len(src)
SrcLineAt(p) == IF SrcHasLine(p) THEN src[p] ELSE ""

\* The number of old lines among the first i lines of f, and the one-indexed
\* source line that line i of f, an old line, stands for.
OldUpTo(f, i) == Cardinality({k \in 1..i : Old(f.Lines[k])})
SrcPos(f, i) == FragStart(f) + OldUpTo(f, i)

\* Line i of f is an old line that differs from the source at its position.
Miss(f, i) == Old(f.Lines[i]) /\ SrcLineAt(SrcPos(f, i)) # f.Lines[i].Line
HasMiss(f) == \E i \in 1..Len(f.Lines) : Miss(f, i)
FirstMiss(f) ==
    CHOOSE i \in 1..Len(f.Lines) : Miss(f, i) /\ \A k \in 1..(i - 1) : ~Miss(f, k)

\* Every old line of f equals an existing source line at its position.
AllOldLinesInSrc(f) ==
    \A i \in 1..Len(f.Lines) :
        Old(f.Lines[i]) => SrcHasLine(SrcPos(f, i)) /\ src[SrcPos(f, i)] = f.Lines[i].Line

\* The number of complete (newline-terminated) lines of the source.
NumComplete == Cardinality({i \in 1..Len(src) : HasSuffix(src[i], "\n")})

LastFrag == frags[Len(frags)]
Succeeded == status # "failed"

\* The first fragment has been applied to the source from its start, it is
\* valid and no file creation, and the source reaches its position.
FirstApplied == Len(frags) = 1 /\ Validate(frags[1])
FirstInRange ==
    FirstApplied /\ frags[1].OldPosition >= 1 /\ NumComplete >= frags[1].OldPosition - 1

\* C1 as stated, for fragments that are no file creations: the apply succeeds
\* iff every old line equals the source line at its position, and every
\* divergence is reported as a Conflict.
C1_Original ==
    (FirstApplied /\ frags[1].OldPosition >= 1) =>
        /\ Succeeded <=> AllOldLinesInSrc(frags[1])
        /\ ~AllOldLinesInSrc(frags[1]) => (status = "failed" /\ IsConflict(aerr.err))

\* The divergence at the first differing old line is reported as an unexpected
\* end of input instead of a conflict: the line is not the first old line of
\* the fragment, it ends with a newline, and the source has no complete line
\* at its position.
EndsEarly(f) ==
    LET i == FirstMiss(f) IN
    /\ OldUpTo(f, i) > 1
    /\ HasSuffix(f.Lines[i].Line, "\n")
    /\ ~HasSuffix(SrcLineAt(SrcPos(f, i)), "\n")

\* C1 (amended): a valid fragment with OldPosition >= 1, applied to a source
\* that has OldPosition - 1 complete lines, succeeds iff every Context and
\* Delete line equals the source line at its position (no line reading as the
\* empty text past the end of the source); the first divergence fails the
\* apply, with a Conflict or, where the source ends early, with an
\* unexpected-EOF error; a source with fewer complete lines fails the apply
\* with an unexpected-EOF error.
C1_StrictApply ==
    /\ FirstInRange =>
        /\ Succeeded <=> ~HasMiss(frags[1])
        /\ HasMiss(frags[1]) =>
              aerr.err = IF EndsEarly(frags[1]) THEN ErrUnexpectedEOF ELSE ConflictNoMatch
    /\ (FirstApplied /\ frags[1].OldPosition >= 1 /\ ~FirstInRange) =>
        status = "failed" /\ aerr.err = ErrUnexpectedEOF

\* A fragment of two old lines fails on a source that ends before the second.
C1_Witness ==
    /\ FirstInRange
    /\ frags[1].OldLines = 2
    /\ status = "failed"
    /\ aerr.err = ErrUnexpectedEOF
    /\ aerr.FragmentLine = 2

\* The bytes of a sequence of lines.

\* The output C2 describes for the fragments from the i-th on, next being the
\* end of the old range of the fragment before: the source lines outside the
\* old ranges, and in place of each range the new lines of its fragment.
RECURSIVE FrameOutput(_, _)
FrameOutput(i, next) ==
    IF i > Len(frags) THEN SubSeq(src, Min(next, Len(src)) + 1, Len(src))
    ELSE LET f == frags[i] IN
         SubSeq(src, next + 1, Min(FragStart(f), Len(src)))
            \o NewTexts(f) \o FrameOutput(i + 1, FragEnd(f))

\* C2: when File.ApplyStrict succeeds, the output is the source with the old
\* range of each fragment replaced by the fragment's Context and Add lines:
\* every source line outside the ranges is written once, in order.
C2_Frame == status = "done" => Concat(dst) = Concat(FrameOutput(1, 0))

\* The position consumed by the fragments applied before the last one.
RECURSIVE NextLine(_)
NextLine(k) == IF k = 0 THEN 0 ELSE LET e == FragEnd(frags[k]) m == NextLine(k - 1) IN
                                    IF e > m THEN e ELSE m

\* C3, for fragments that are no file creations: a fragment that starts at a
\* source line before the position consumed by the fragments before it fails
\* with a conflict, so no source line is covered by two applied fragments.
C3_Overlap ==
    (Len(frags) >= 2 /\ Validate(LastFrag) /\ LastFrag.OldPosition >= 1
        /\ SrcHasLine(LastFrag.OldPosition)
        /\ FragStart(LastFrag) < NextLine(Len(frags) - 1)) =>
            status = "failed" /\ IsConflict(aerr.err)

\* The first fragment applied is a valid file creation.
CreationApplied ==
    FirstApplied /\ frags[1].OldPosition = 0 /\ frags[1].OldLines = 0

\* C4: a file-creation fragment applied to a non-empty source fails with a
\* Conflict; applied to an empty source it succeeds and the output is exactly
\* its added lines.
C4_Creation ==
    CreationApplied =>
        IF src # <<>>
        THEN status = "failed" /\ IsConflict(aerr.err)
        ELSE Succeeded /\ dst = AddedTexts(frags[1])

C4_Witness ==
    CreationApplied /\ src # <<>> /\ status = "failed" /\ aerr.err = ConflictCreate

\* C5: when the apply fails because a Context or Delete line does not match
\* the source, the error carries the one-indexed number of the source line
\* that line stands for, the one-indexed index of the fragment in the file
\* and the one-indexed index of the line in the fragment.
C5_ErrorPosition ==
    (aerr.err = ConflictNoMatch /\ HasMiss(LastFrag)) =>
        /\ aerr.Fragment = Len(frags)
        /\ aerr.FragmentLine = FirstMiss(LastFrag)
        /\ aerr.Line = SrcPos(LastFrag, FirstMiss(LastFrag))

\* The same, for a single fragment on a source line that exists.
C5_ErrorPositionInSrc ==
    (Len(frags) = 1 /\ aerr.err = ConflictNoMatch /\ HasMiss(LastFrag)
        /\ SrcHasLine(SrcPos(LastFrag, FirstMiss(LastFrag)))) =>
            /\ aerr.Fragment = 1
            /\ aerr.FragmentLine = FirstMiss(LastFrag)
            /\ aerr.Line = SrcPos(LastFrag, FirstMiss(LastFrag))

----------------------------------------------------------------------------
(* Properties of the parser and of the formatter.                          *)

Returned == pstatus \in {"done", "failed", "crashed"}

\* C6: for every file F that a successful Parse returned, Parse of F.String()
\* succeeds and returns exactly one file, equal to F in every field.
C6_RoundTrip ==
    rt.of # 0 => rt.status = "done" /\ rt.files = <<files[rt.of]>>

\* The fragments that Parse returned.
ParsedFragments ==
    {files[i].TextFragments[j] : <<i, j>> \in
        {ij \in (1..Len(files)) \X (1..Len(input)) :
            ij[2] <= Len(files[ij[1]].TextFragments)}}

CountOp(f, op) == Cardinality({i \in 1..Len(f.Lines) : f.Lines[i].Op = op})

\* The Context lines before the first line that is none.
LeadingCount(f) ==
    Cardinality({i \in 1..Len(f.Lines) : \A j \in 1..i : f.Lines[j].Op = OpContext})

\* The Context lines after the last line that is none: none when every line
\* is a Context line, all of which are leading ones.
TrailingCount(f) ==
    IF \A i \in 1..Len(f.Lines) : f.Lines[i].Op = OpContext THEN 0
    ELSE Cardinality({i \in 1..Len(f.Lines) :
                        \A j \in i..Len(f.Lines) : f.Lines[j].Op = OpContext})

CountersMatch(f) ==
    /\ CountOp(f, OpContext) + CountOp(f, OpDelete) = f.OldLines
    /\ CountOp(f, OpContext) + CountOp(f, OpAdd) = f.NewLines
    /\ f.LinesAdded = CountOp(f, OpAdd)
    /\ f.LinesDeleted = CountOp(f, OpDelete)
    /\ f.LeadingContext = LeadingCount(f)
    /\ f.TrailingContext = TrailingCount(f)

\* C7 as stated: the counters of every fragment of a successful parse are
\* the counts of its lines, and Validate accepts the fragment.
C7_Original ==
    pstatus = "done" => \A f \in ParsedFragments : CountersMatch(f) /\ Validate(f)

\* C7: the counters of every fragment of a successful parse are the counts of
\* its lines; Validate accepts the fragment unless it has old lines at old
\* position 0, and rejects it then.
C7_HunkConsistency ==
    pstatus = "done" =>
        \A f \in ParsedFragments :
            /\ CountersMatch(f)
            /\ Validate(f) <=> ~(f.OldPosition = 0 /\ f.OldLines # 0)

\* A successful parse returned a fragment with leading and trailing context
\* around a change and with old lines at old position 0, which Validate
\* rejects.
C7_Witness ==
    /\ pstatus = "done"
    /\ \E f \in ParsedFragments :
        /\ f.LeadingContext > 0 /\ f.TrailingContext > 0
        /\ f.LinesAdded > 0 /\ f.LinesDeleted > 0
        /\ f.OldPosition = 0 /\ f.OldLines # 0
        /\ ~Validate(f)

\* The lines of the input at which a file header starts: the lines of a Git
\* header, and the first of the three lines of a traditional one.
IsGitHeaderLine(k) == HasPrefix(input[k], fileHeaderPrefix)

IsTraditionalHeaderAt(k) ==
    /\ k + 2 <= Len(input)
    /\ HasPrefix(input[k], "--- ")
    /\ HasPrefix(input[k + 1], "+++ ")
    /\ HasPrefix(input[k + 2], "@@ -")
    /\ Len(input[k + 2]) >= Len(shortestValidFragHeader)

FileStarts ==
    {k \in 1..Len(input) : IsGitHeaderLine(k) \/ (k = 1 /\ IsTraditionalHeaderAt(k))}

\* Whether an error is one of a file header, and not of the fragments.
IsHeaderError(e) ==
    \/ HasPrefix(e.msg, "git file header: ")
    \/ HasPrefix(e.msg, "file header: ")
    \/ e.msg = ErrMissingFilename

\* The line at which the file starts that Parse stops in with perr: the line
\* of the error when it is one of the scan for the next header, and else the
\* last start of a file up to the line of the error, a line that is itself
\* the start of a file being the end of the fragments before it.
FailedStart ==
    IF HasPrefix(perr.msg, ErrStrayFragment) THEN perr.line
    ELSE With(IF IsHeaderError(perr) THEN perr.line ELSE perr.line - 1, LAMBDA last :
            IF \A k \in FileStarts : k > last THEN Len(input) + 1
            ELSE CHOOSE k \in FileStarts :
                    k <= last /\ \A j \in FileStarts : j <= last => j <= k)

StartsOf(fs) == {fs[i] : i \in 1..Len(fs)}

Increasing(fs) == \A i \in 1..(Len(fs) - 1) : fs[i] < fs[i + 1]

\* What Parse returns with an error: the error and the files that start
\* before the file of the error, in the order of the input; and with no
\* error, the files of the input in its order.
C8_ReturnedError ==
    /\ Len(fileLines) = Len(files) /\ Increasing(fileLines)
    /\ pstatus = "failed" =>
        perr # NoErr /\ StartsOf(fileLines) = {k \in FileStarts : k < FailedStart}
    /\ pstatus = "done" => perr = NoErr /\ StartsOf(fileLines) = FileStarts

\* C8: Parse returns: with the error of the N-th file and the files before
\* it in the order of the input, none of them the file of the error, or
\* with no error and all the files of the input in its order.
C8_AllOrOne ==
    pstatus # "crashed" /\ C8_ReturnedError

\* The text of the input before line k.
TextBefore(k) == Concat(SubSeq(input, 1, k - 1))

\* C9: the preamble that a successful Parse returns is the input before the
\* first file header; with no file header in the input it returns no file
\* and the whole input.
C9_Preamble ==
    pstatus = "done" =>
        IF FileStarts = {} THEN files = <<>> /\ preamble = Concat(input)
        ELSE preamble = TextBefore(CHOOSE k \in FileStarts : \A j \in FileStarts : k <= j)

\* Whether a line is a fragment header for ParseTextFragmentHeader.
IsFragmentHeader(line) ==
    With(ParseTextFragmentHeader([NewParser(<<>>) EXCEPT !.lineno = 1,
                                                         !.lines = <<line, "", "">>]),
         LAMBDA h : h.has /\ h.err = NoErr)

FragmentOf(line) ==
    ParseTextFragmentHeader([NewParser(<<>>) EXCEPT !.lineno = 1,
                                                    !.lines = <<line, "", "">>]).frag

\* The lines from line k on at which the scan for a file header ends: a
\* fragment header, or the start of a file header.
ScanStops(from) ==
    {k \in from..Len(input) :
        IsFragmentHeader(input[k]) \/ IsGitHeaderLine(k) \/ IsTraditionalHeaderAt(k)}

FirstStop(from) ==
    IF ScanStops(from) = {} THEN 0
    ELSE CHOOSE k \in ScanStops(from) : \A j \in ScanStops(from) : k <= j

\* C10: after a scan for the next file header from line scanFrom: when the
\* first line that is a fragment header or starts a file header is a
\* fragment header, Parse fails with the error of a fragment without file
\* header at the number of that line; and no other line makes it fail so,
\* and none before that line makes it fail at all: with no such line Parse
\* succeeds, and an error is one of a line from that line on.
C10_StrayFragment ==
    scanFrom # 0 =>
        With(FirstStop(scanFrom), LAMBDA k :
            IF k # 0 /\ IsFragmentHeader(input[k]) THEN
                /\ pstatus = "failed"
                /\ perr = [line |-> k,
                           msg |-> ErrStrayFragment \o Header(FragmentOf(input[k]))]
            ELSE
                /\ ~HasPrefix(perr.msg, ErrStrayFragment)
                /\ k = 0 => pstatus = "done" /\ perr = NoErr
                /\ pstatus = "failed" => perr.line >= k
                /\ pstatus = "parsing" => fileLines[Len(fileLines)] = k)

\* Parse failed at a fragment header after it passed a line that starts like
\* one and is none.
C10_Witness ==
    /\ pstatus = "failed"
    /\ HasPrefix(perr.msg, ErrStrayFragment)
    /\ perr.line > scanFrom
    /\ \E j \in scanFrom..(perr.line - 1) :
        HasPrefix(input[j], "@@ -") /\ ~IsFragmentHeader(input[j])
----------------------------------------------------------------------------
(* Properties of the header lines.                                         *)

\* The header parser has accepted every line so far.
HeaderAccepted == ghdr.status \in {"reading", "ended"}

\* C11: after header lines that the header parser accepts, in any order, a
\* File with IsNew has no old name and old mode 0, and a File with IsDelete
\* has no new name and new mode 0.
C11_FileInvariant ==
    HeaderAccepted =>
        /\ ghdr.f.IsNew => ghdr.f.OldName = "" /\ ghdr.f.OldMode = 0
        /\ ghdr.f.IsDelete => ghdr.f.NewName = "" /\ ghdr.f.NewMode = 0

\* The score lines of HeaderLines with a value above 100.
ScoreAbove100 == {"similarity index 101\n", "dissimilarity index 9001\n"}

\* C12: after accepted header lines the score is in 0..100, and it is 0 after
\* a score line with a value above 100.
C12_Score ==
    HeaderAccepted =>
        /\ ghdr.f.Score \in 0..100
        /\ (ghdr.lines # <<>> /\ ghdr.lines[Len(ghdr.lines)] \in ScoreAbove100)
               => ghdr.f.Score = 0

----------------------------------------------------------------------------
(* Properties of the Applier.                                              *)

\* Whether call i of the applier comes after an accepted call of one of the
\* kinds.
After(i, kinds) ==
    \E j \in 1..(i - 1) :
        ap.calls[j].kind \in kinds /\ ap.calls[j].err # errApplyInProgress

\* C13: a call fails with the apply-in-progress error exactly when the
\* applier has accepted a call of ApplyBinaryFragment or ApplyFile before it,
\* or when it is itself one of these and the applier has accepted a call of
\* ApplyTextFragment before it; so an applier accepts any number of text
\* fragments, or one binary fragment, or one file.
C13_ApplierProtocol ==
    \A i \in 1..Len(ap.calls) :
        ap.calls[i].err = errApplyInProgress <=>
            \/ After(i, {applyBinaryFragment, applyFile})
            \/ /\ ap.calls[i].kind \in {applyBinaryFragment, applyFile}
               /\ After(i, {applyTextFragment})

\* Two text fragments were accepted, and the binary fragment and the file
\* after them were not.
C13_Witness ==
    /\ Len(ap.calls) = 4
    /\ ap.calls[1].kind = applyTextFragment /\ ap.calls[1].err = "nil"
    /\ ap.calls[2].kind = applyTextFragment /\ ap.calls[2].err = "nil"
    /\ ap.calls[3].kind = applyBinaryFragment /\ ap.calls[3].err = errApplyInProgress
    /\ ap.calls[4].kind = applyFile /\ ap.calls[4].err = errApplyInProgress

----------------------------------------------------------------------------
(* Properties of binary deltas.  The format of a delta is read here from   *)
(* its description: two sizes of seven bits per byte, the low bits first   *)
(* and the last byte below 0x80, then the opcodes.                         *)

\* The index of the last byte of the size that d starts with.
SizeEnd(d) ==
    IF \E k \in 1..Len(d) : d[k] <= 127
    THEN CHOOSE k \in 1..Len(d) : d[k] <= 127 /\ \A j \in 1..(k - 1) : d[j] > 127
    ELSE Len(d)

RECURSIVE SizeValue(_, _)
SizeValue(d, k) ==
    IF k = 0 THEN 0 ELSE SizeValue(d, k - 1) + (d[k] % 128) * 128 ^ (k - 1)

\* The source size that the delta declares, and the delta after it.
DeclaredSrcSize(d) == SizeValue(d, SizeEnd(d))
AfterSrcSize(d) == SubSeq(d, SizeEnd(d) + 1, Len(d))

\* The result size that the delta declares, and the opcodes after it.
DeclaredDstSize(d) == DeclaredSrcSize(AfterSrcSize(d))
Opcodes(d) == AfterSrcSize(AfterSrcSize(d))

\* The number of bits of op set among bits lo..hi.
BitsSet(op, lo, hi) == Cardinality({i \in lo..hi : (op \div 2 ^ i) % 2 = 1})

\* The number of bytes that the opcode at the head of ops takes, itself
\* included.
OpcodeLen(ops) ==
    IF ops[1] < 128 THEN 1 + ops[1] ELSE 1 + BitsSet(ops[1], 0, 6)

\* The number of bytes that the complete opcode at the head of ops
\* produces: the size of an add, and the size bytes of a copy, which follow
\* its offset bytes, with 0 standing for 0x10000.
RECURSIVE CopySize(_, _, _)
CopySize(ops, i, at) ==
    IF i > 6 THEN 0
    ELSE IF (ops[1] \div 2 ^ i) % 2 = 1
         THEN ops[at] * 256 ^ (i - 4) + CopySize(ops, i + 1, at + 1)
         ELSE CopySize(ops, i + 1, at)

OpcodeBytes(ops) ==
    IF ops[1] < 128 THEN ops[1]
    ELSE IF CopySize(ops, 4, 2 + BitsSet(ops[1], 0, 3)) = 0 THEN 65536
         ELSE CopySize(ops, 4, 2 + BitsSet(ops[1], 0, 3))

\* Whether ops is a sequence of complete opcodes, none of them 0.
RECURSIVE WellFormed(_)
WellFormed(ops) ==
    \/ Len(ops) = 0
    \/ /\ ops[1] # 0
       /\ OpcodeLen(ops) <= Len(ops)
       /\ WellFormed(SubSeq(ops, OpcodeLen(ops) + 1, Len(ops)))

\* The number of bytes that well-formed opcodes produce.
RECURSIVE Produced(_)
Produced(ops) ==
    IF Len(ops) = 0 THEN 0
    ELSE OpcodeBytes(ops) + Produced(SubSeq(ops, OpcodeLen(ops) + 1, Len(ops)))

\* C14: a binary delta is applied without error only if its opcodes are
\* complete, none of them is 0, and the bytes they produce are as many as
\* the result size that the delta declares; so a delta with opcode 0, with a
\* truncated add or copy, or producing fewer or more bytes fails.
C14_DeltaResultSize ==
    (bin.status = "done" /\ bin.err = Nil) =>
        /\ WellFormed(Opcodes(bin.frag))
        /\ Produced(Opcodes(bin.frag)) = DeclaredDstSize(bin.frag)
        /\ Len(bin.out) = DeclaredDstSize(bin.frag)

\* A delta of a copy of one byte and an add of one byte was applied to a
\* source of two bytes.
C14_Witness ==
    /\ bin.status = "done"
    /\ bin.src = <<10, 11>>
    /\ bin.frag = <<2, 2, 144, 1, 1, 2>>
    /\ bin.err = Nil
    /\ bin.out = <<10, 2>>

\* C15: applying a binary delta fails with a Conflict exactly when the source
\* size that the delta declares differs from the length of the source, and
\* then nothing has been written.
C15_DeltaSrcSize ==
    bin.status = "done" =>
        /\ IsConflict(bin.err) <=> DeclaredSrcSize(bin.frag) # Len(bin.src)
        /\ IsConflict(bin.err) => bin.out = <<>>

\* A delta that declares the source size 0 and adds a byte has failed with a
\* Conflict on a source of one byte.
C15_Witness ==
    /\ bin.status = "done"
    /\ bin.src = <<10>>
    /\ bin.frag = <<0, 1, 1, 2>>
    /\ bin.err = "conflict: fragment src size does not match actual src size"
    /\ bin.out = <<>>

----------------------------------------------------------------------------
(* Properties of the LineReaderAt.                                         *)

\* The number of lines of the source of the reader.
NumLines == Len(lra.src.lens)

\* Line k of the source, k counted from 0.
SourceLine(k) == [start |-> LineEnd(lra.src, k), end |-> LineEnd(lra.src, k + 1)]

\* The number of lines that the source has from lra.offset on, up to
\* lra.count.
Available ==
    IF NumLines > lra.offset THEN Min(lra.count, NumLines - lra.offset) ELSE 0

\* C16: ReadLinesAt(lines, offset) returns at most len(lines) lines, which
\* are the lines of the source from offset on, and an error if they are
\* fewer than len(lines); where the source ends before offset + len(lines)
\* lines it returns the lines there are with io.EOF, and it does not crash.
C16_ReadLinesAt ==
    /\ lra.status # "crashed"
    /\ Len(lra.lines) <= lra.count
    /\ \A k \in 1..Len(lra.lines) : lra.lines[k] = SourceLine(lra.offset + k - 1)
    /\ Len(lra.lines) < lra.count => lra.err # Nil
    /\ (lra.count > 0 /\ NumLines < lra.offset + lra.count) =>
           Len(lra.lines) = Available /\ lra.err = EOF

\* C19: the line index only grows, by larger offsets, and once indexing has
\* reached the end of the input it holds the end of every line of the
\* source, the last line without a newline included.
C19_LineIndex ==
    /\ \A i \in 1..(Len(lra.index) - 1) : lra.index[i] < lra.index[i + 1]
    /\ Len(lra.before) <= Len(lra.index)
    /\ SubSeq(lra.index, 1, Len(lra.before)) = lra.before
    /\ lra.eof => lra.index = [k \in 1..NumLines |-> LineEnd(lra.src, k)]

----------------------------------------------------------------------------
(* Properties of the line source.                                          *)

\* Line k of the input of the line source, the empty string past its end.
InputLine(k) == IF k >= 1 /\ k <= Len(ln.in) THEN ln.in[k] ELSE ""

----------------------------------------------------------------------------
(* Git file headers at the end of the input.                               *)

\* The input is one Git file header of a rename and nothing after it.
HeaderOnly ==
    /\ Len(input) >= 3
    /\ SubSeq(input, 1, 3) = <<"diff --git a/f b/g\n", "rename from f\n", "rename to g\n">>
    /\ \A i \in 4..Len(input) : input[i] = "similarity index 90\n"

\* C20: a Git file header that the end of the input ends is parsed: Parse
\* returns its file, without fragments, and no error, and does not crash.
C20_HeaderAtEOF ==
    (HeaderOnly /\ pstatus \notin {"idle", "start", "parsing"}) =>
        /\ pstatus = "done"
        /\ perr = NoErr
        /\ Len(files) = 1
        /\ files[1].IsRename /\ files[1].OldName = "f" /\ files[1].NewName = "g"
        /\ files[1].TextFragments = <<>>

----------------------------------------------------------------------------
(* The advancement of the parser by the methods that parse an object.      *)
(* The parser starts on line 1 of the input, so its line number after the  *)
(* call is the number of the line it is on.                                *)

\* Line k of the input of the method, the empty string past its end.
MethodLine(k) == IF k >= 1 /\ k <= Len(pm.in) THEN pm.in[k] ELSE ""

\* The least number of L that is at least from, and the line after the
\* input if there is none.
FirstFrom(L, from) ==
    IF \E k \in L : k >= from
    THEN CHOOSE k \in L : k >= from /\ \A j \in L : j >= from => k <= j
    ELSE Len(pm.in) + 1

\* The lines of the metadata of a Git file header: the lines that start with
\* one of its prefixes.
IsMetadata(line) ==
    \E pre \in {"--- ", "+++ ", "old mode ", "new mode ", "deleted file mode ",
                "new file mode ", "copy from ", "copy to ", "rename old ",
                "rename new ", "rename from ", "rename to ", "similarity index ",
                "dissimilarity index ", "index "} : HasPrefix(line, pre)

\* The lines of the body of a fragment: context, deleted and added lines and
\* the marker of a line without newline.
IsOld(line) == Char(line, 1) \in {" ", "\n", "-"}
IsNewLine(line) == Char(line, 1) \in {" ", "\n", "+"}
IsMarker(line) == Len(line) >= 12 /\ SubSeq(line, 1, 2) = "\\ "
IsBodyLine(line) == IsOld(line) \/ IsNewLine(line) \/ IsMarker(line)

\* The numbers of old and of new lines among the lines from..to.
OldCount(from, to) == Cardinality({k \in from..to : IsOld(pm.in[k])})
NewCount(from, to) == Cardinality({k \in from..to : IsNewLine(pm.in[k])})

\* The line after the body of a fragment of old and new lines that starts at
\* line from: the body has that many old and new lines, and the markers
\* after them.
BodyEnd(from, old, new) ==
    FirstFrom({k \in from..Len(pm.in) :
                  /\ OldCount(from, k) >= old /\ NewCount(from, k) >= new
                  /\ ~IsMarker(MethodLine(k + 1))}, from) + 1

\* The line after the fragments that start at line from, of which there are
\* at most n.
RECURSIVE FragmentsEnd(_, _)
FragmentsEnd(from, n) ==
    IF n = 0 \/ ~IsFragmentHeader(MethodLine(from)) THEN from
    ELSE FragmentsEnd(BodyEnd(from + 1, FragmentOf(MethodLine(from)).OldLines,
                              FragmentOf(MethodLine(from)).NewLines), n - 1)

\* The line after the object that starts at line 1 and was returned.
ObjectEnd ==
    IF pm.method.name = "ParseGitFileHeader" THEN
        FirstFrom({k \in 2..Len(pm.in) : ~IsMetadata(pm.in[k])}, 2)
    ELSE IF pm.method.name = "ParseTraditionalFileHeader" THEN 3
    ELSE IF pm.method.name = "ParseTextChunk" THEN
        BodyEnd(1, pm.method.old, pm.method.new)
    ELSE IF pm.method.name = "ParseTextFragments" THEN FragmentsEnd(1, Len(pm.in))
    ELSE IF pm.method.name = "ParseBinaryChunk" THEN
        FirstFrom({k \in 1..Len(pm.in) : pm.in[k] = "\n"}, 1) + 1
    ELSE 2

\* The line after the lines from line 1 on that can be lines of the object.
ObjectLimit ==
    IF pm.method.name = "ParseGitFileHeader" THEN
        FirstFrom({k \in 2..Len(pm.in) : ~IsMetadata(pm.in[k])}, 2)
    ELSE IF pm.method.name = "ParseTraditionalFileHeader" THEN 3
    ELSE IF pm.method.name = "ParseTextChunk" THEN
        FirstFrom({k \in 1..Len(pm.in) : ~IsBodyLine(pm.in[k])}, 1)
    ELSE IF pm.method.name = "ParseTextFragments" THEN
        FirstFrom({k \in 1..Len(pm.in) :
                      ~IsBodyLine(pm.in[k]) /\ ~HasPrefix(pm.in[k], "@@ -")}, 1)
    ELSE IF pm.method.name = "ParseBinaryChunk" THEN
        FirstFrom({k \in 1..Len(pm.in) : pm.in[k] = "\n"}, 1) + 1
    ELSE 2

----------------------------------------------------------------------------
(* Properties of score lines and of names in header lines.                 *)

\* The last header line handed to parseGitHeaderData, "" before the first.
LastHeaderLine == IF ghdr.lines = <<>> THEN "" ELSE ghdr.lines[Len(ghdr.lines)]

\* The text between the prefix of a score line and its "%".
PercentValue(line) ==
    LET l == TrimSuffix(TrimSuffix(line, "\n"), "%") IN
    IF HasPrefix(l, "similarity index ") THEN SubSeq(l, 18, Len(l))
    ELSE IF HasPrefix(l, "dissimilarity index ") THEN SubSeq(l, 21, Len(l))
    ELSE ""

\* A line 'similarity index N%' or 'dissimilarity index N%'.
IsPercentLine(line) == HasSuffix(line, "%\n") /\ PercentValue(line) # ""

\* C21: a score line 'similarity index N%' or 'dissimilarity index N%' with
\* N in 0..100 is accepted and stores the score N, the "%" being trimmed
\* before the number is parsed; a value that is no number is an error.
C21_ScorePercent ==
    IsPercentLine(LastHeaderLine) =>
        LET n == ParseDigits(PercentValue(LastHeaderLine), 1, 10, 0) IN
        /\ n \in 0..100 => ghdr.status = "reading" /\ ghdr.f.Score = n
        /\ n = -1 => ghdr.status = "failed"

\* The name of a 'rename from', 'rename to', 'copy from' or 'copy to' line:
\* the rest of the line without its newline ("" for any other line).
RemainderName(line) ==
    LET l == TrimSuffix(line, "\n")
        after(prefix) == SubSeq(l, Len(prefix) + 1, Len(l))
    IN
    IF HasPrefix(l, "rename from ") THEN after("rename from ")
    ELSE IF HasPrefix(l, "rename to ") THEN after("rename to ")
    ELSE IF HasPrefix(l, "copy from ") THEN after("copy from ")
    ELSE IF HasPrefix(l, "copy to ") THEN after("copy to ")
    ELSE ""

\* Whether the line names the old side.
IsFromLine(line) == HasPrefix(line, "rename from ") \/ HasPrefix(line, "copy from ")

\* C22: after a line 'rename from X', 'rename to X', 'copy from X' or
\* 'copy to X' with an unquoted X the old name (the new name for 'to') is
\* the whole rest of the line without the newline, spaces and tabs included.
C22_NameRemainder ==
    LET x == RemainderName(LastHeaderLine) IN
    (x # "" /\ Char(x, 1) # "\"") =>
        /\ ghdr.status = "reading"
        /\ IF IsFromLine(LastHeaderLine) THEN ghdr.f.OldName = x ELSE ghdr.f.NewName = x

----------------------------------------------------------------------------
(* Properties of parseName.                                                *)

\* parseName has run on a text that starts no quoted name.
ParsedUnquoted == nam.status = "parsed" /\ (nam.text = "" \/ Char(nam.text, 1) # "\"")

\* Whether the terminator asked for stands at byte i of the text.
IsTerminator(i) ==
    IF nam.term = "" THEN Char(nam.text, i) \in {" ", "\t"} ELSE Char(nam.text, i) = nam.term

\* C23: parseName never crosses a newline.  For an unquoted text with a
\* newline and every terminator (space or tab, tab, to the end) the name
\* returned holds no newline and ends at or before the first newline, and
\* when no terminator stands before the newline the name is the text before
\* the newline and the index returned is the index of the newline.
C23_NameStopsAtNewline ==
    (ParsedUnquoted /\ Index(nam.text, "\n") > 0) =>
        LET k == Index(nam.text, "\n") IN
        /\ nam.res.ok => Index(nam.res.name, "\n") = 0 /\ nam.res.n <= k - 1
        /\ (k > 1 /\ \A i \in 1..(k - 1) : ~IsTerminator(i)) =>
               nam.res.ok /\ nam.res.n = k - 1

\* C24: a name that the formatter writes in quotes is read back by parseName
\* (without dropped prefix) as the same name, and the index returned is the
\* length of the quoted text, whatever follows it on the line.
C24_QuotedRoundTrip ==
    (nam.status = "parsed" /\ nam.drop = 0 /\ writeQuotedName(nam.name) # nam.name) =>
        /\ nam.res.ok
        /\ nam.res.name = nam.name
        /\ nam.res.n = Len(writeQuotedName(nam.name))

----------------------------------------------------------------------------
(* Properties of the methods of the parser.                                *)

\* The method of the name was called on its own, on line 1 of the input.
Called(name) == pm.status = "called" /\ pm.method.name = name

\* The markers of a binary file without data: 'Binary files differ', 'Files
\* differ' and 'Binary files a/X and b/Y differ'.
IsNoDataMarker(line) ==
    \/ line \in {"Binary files differ\n", "Files differ\n"}
    \/ /\ HasPrefix(line, "Binary files a/")
       /\ HasSuffix(line, " differ\n")
       /\ Index(line, " and b/") > 0

\* C25: ParseBinaryMarker reports 'GIT binary patch' as binary with data
\* and each marker without data as binary without data, and moves to the
\* next line; on any other line it reports no binary file and leaves the
\* parser as it is.
C25_BinaryMarker ==
    Called("ParseBinaryMarker") =>
        LET line == Line(pm.before, 0)
            r == ParseBinaryMarker(pm.before)
        IN
        IF line = "GIT binary patch\n" \/ IsNoDataMarker(line)
        THEN /\ pm.res = "object"
             /\ r.hasData = (line = "GIT binary patch\n")
             /\ pm.after.lineno = pm.before.lineno + 1
        ELSE pm.res = "nil" /\ pm.after = pm.before

----------------------------------------------------------------------------
(* Properties of the fragments of Parse.                                   *)

\* The lines of the input that start like the header of a fragment.
HunkHeaderLines == {k \in 1..Len(input) : HasPrefix(input[k], "@@ -")}

\* The one line of the input that is a fragment header when there is
\* exactly one, and the fragment that the header declares.
HunkHeaderLine == CHOOSE k \in HunkHeaderLines : TRUE
DeclaredFragment ==
    ParseTextFragmentHeader(ParserNext(NewParser(<<input[HunkHeaderLine]>>)).p).frag

\* The last line of the body after the header: the lines of a fragment
\* (context, deleted, added, marker) that follow the header without a gap.
HunkBodyEnd ==
    CHOOSE j \in HunkHeaderLine..Len(input) :
        /\ \A i \in (HunkHeaderLine + 1)..j : IsBodyLine(input[i])
        /\ j = Len(input) \/ ~IsBodyLine(input[j + 1])

\* The body ends before both counters of the header are 0: it has no more
\* old and no more new lines than the header declares, and fewer of one.
BodyEndsEarly ==
    LET body == (HunkHeaderLine + 1)..HunkBodyEnd
        old == Cardinality({i \in body : IsOld(input[i])})
        new == Cardinality({i \in body : IsNewLine(input[i])})
    IN
    /\ old <= DeclaredFragment.OldLines
    /\ new <= DeclaredFragment.NewLines
    /\ old < DeclaredFragment.OldLines \/ new < DeclaredFragment.NewLines

\* C26: when the body of a fragment ends before both counters of its header
\* are 0, by a line that is no line of a fragment or by the end of the input,
\* ParseTextChunk fails with the miscount error, whatever lines the body
\* has, and the line the error reports is the line of the fragment header.
\* Checked on the inputs with one fragment header, when Parse fails in
\* ParseTextChunk.
C26_MiscountLine ==
    (/\ pstatus = "failed"
     /\ perr.msg \in {ErrMiscount, ErrInvalidLineOp}
     /\ Cardinality(HunkHeaderLines) = 1
     /\ BodyEndsEarly) =>
        perr.msg = ErrMiscount /\ perr.line = HunkHeaderLine

----------------------------------------------------------------------------
(* Properties of ParseTextChunk, called on its own on the first line of    *)
(* the body of a fragment with the line counts of pm.method.               *)

\* The fragment that ParseTextChunk fills.
ChunkFragment ==
    ParseTextChunk(pm.before,
                   [NoFragment EXCEPT !.OldLines = pm.method.old,
                                      !.NewLines = pm.method.new]).frag

\* The text of a line of the body without its first byte, as the fragment
\* keeps it; an empty line is an empty context line.
BodyData(line) == IF line = "\n" THEN "\n" ELSE SubSeq(line, 2, Len(line))

\* C27: a no-newline marker on the first line of the body makes
\* ParseTextChunk return an error: it does not panic and returns no
\* fragment.  When ParseTextChunk returns a fragment, each of its lines is
\* the line of the body, without its newline exactly when a marker follows
\* it.
C27_NoNewlineMarker ==
    Called("ParseTextChunk") =>
        /\ IsMarker(MethodLine(1)) => pm.res = "error"
        /\ pm.res = "object" =>
              \A k \in 1..(pm.after.lineno - 1) :
                  ~IsMarker(pm.in[k]) =>
                      LET n == Cardinality({j \in 1..k : ~IsMarker(pm.in[j])}) IN
                      ChunkFragment.Lines[n].Line =
                          IF IsMarker(MethodLine(k + 1))
                          THEN TrimSuffix(BodyData(pm.in[k]), "\n")
                          ELSE BodyData(pm.in[k])

\* C28: ParseTextChunk returns an error for a body that has only context
\* lines, also when their number is the number the header declares: no
\* fragment of a file that Parse returns is without an added or deleted line.
C28_OnlyContext ==
    \A i \in 1..Len(files) :
        \A j \in 1..Len(files[i].TextFragments) :
            \E l \in 1..Len(files[i].TextFragments[j].Lines) :
                files[i].TextFragments[j].Lines[l].Op \in {OpAdd, OpDelete}

\* The fragments of the files that Parse has returned.
ReturnedFragments ==
    UNION {{files[i].TextFragments[j] : j \in 1..Len(files[i].TextFragments)} :
              i \in 1..Len(files)}

\* C29: every fragment that Parse returns has OldPosition >= 0,
\* NewPosition >= 0, OldLines >= 0, NewLines >= 0 and at least one line,
\* also when the numbers of its header have signs.
C29_FragmentFields ==
    \A frag \in ReturnedFragments :
        /\ frag.OldPosition >= 0 /\ frag.NewPosition >= 0
        /\ frag.OldLines >= 0 /\ frag.NewLines >= 0
        /\ Len(frag.Lines) >= 1

----------------------------------------------------------------------------
(* Termination of Parse.                                                   *)

\* Parse has returned, or has ended in a panic.
ParseEnded == pstatus \in {"done", "failed", "crashed"}

\* C30: Parse terminates on every input.  The parser never moves backward,
\* every step of Parse that does not end it moves the parser forward by at
\* least one line, the parser is never beyond the line after the input, and
\* every call of Parse ends.
C30_Termination ==
    /\ [][/\ parser'.lineno >= parser.lineno
          /\ parser'.lineno <= Len(input') + 1
          /\ pstatus \in {"start", "parsing"} =>
                 (ParseEnded' \/ parser'.lineno > parser.lineno)]_pvars
    /\ (pstatus = "start") ~> ParseEnded

\* Parse has ended on an input with a line that starts like a fragment
\* header and is none, followed by a file header and a fragment header at
\* which the input ends: it has read the input to its end and has returned
\* an error.
C30_Witness ==
    /\ pstatus = "failed"
    /\ input = <<"@@ -1 +1\n", "diff --git a/f b/g\n", "rename from f\n", "rename to g\n",
                 "@@ -1 +1 @@\n">>
    /\ perr.msg = ErrNoContent
    /\ parser.lineno = Len(input) + 1


============================================================================
